---- MODULE Spec2Model ----
(***************************************************************************)
(* Order lifecycle and inventory engine of the campus marketplace backend. *)
(* Entities (Product, UMKM, Order) are records, the in-memory repositories *)
(* are functions whose DOMAIN is the set of stored ids (Python dicts that  *)
(* hand out and keep deep copies), and each application-service use case   *)
(* is one action that runs the whole handler; Spec runs the order, product *)
(* and merchant-moderation handlers.  A second specification,              *)
(* SpecConc, runs two create_order requests step by step, one store call   *)
(* per step.  SpecRating folds review scores into a merchant's rating and  *)
(* SpecPromo uses one promo; their averages and discounts are Python       *)
(* floats, carried bit for bit.  SpecLedger adds delete_product to the     *)
(* order handlers, SpecCancelTwice runs two cancel_order requests step by  *)
(* step, SpecReviewEdit adds update_review to create_review, and           *)
(* SpecRegister registers merchants into an empty store.  The updated_at / *)
(* created_at timestamps and the descriptive text fields, which no         *)
(* modelled operation reads, are left out.                                 *)
(***************************************************************************)
EXTENDS Integers, Sequences, FiniteSets, TLC

(* ------------------------------ bounds -------------------------------- *)
MaxStock  == 2
MaxQty    == 2
MaxLines  == 2
MaxOrders == 1
MaxTime   == 2

MaxReviews == 7

MaxUses == 2

(* ------------------------- identifiers, inputs ------------------------ *)
B1 == "b1"
S1 == "s1"
S2 == "s2"
A1 == "a1"
M1 == "m1"
M2 == "m2"
M3 == "m3"
P1 == "p1"
P2 == "p2"
P3 == "p3"
P4 == "p4"

OK == "ok"
NoOrder == 0
NoTime == 0
NoPickup == 0
NoReason == "none"
Unlimited == <<>>
InStock(n) == <<n>>
Price1 == 2
Price2 == 3
Price3 == 5

OrderIds == 1..MaxOrders
ActingUsers == {B1, S1, S2}
UmkmInputs == {M1, M3}
SellerProductInputs == {P1, P4}
SellerInputs == {S1, S2}
QtyInputs == 0..MaxQty
StockInputs == (0 - 1)..MaxStock
PickupInputs == {NoPickup, MaxTime}
ReasonInputs == {"changed mind"}
StatusInputs == {"confirmed", "preparing", "ready", "completed", "cancelled"}

Line(product_id, quantity) == [product_id |-> product_id, quantity |-> quantity]
LineInputs == {Line(P1, q) : q \in QtyInputs} \cup {Line(P2, 1), Line(P3, 1), Line(P4, 1)}
RECURSIVE SeqsUpTo(_, _)
SeqsUpTo(S, n) ==
    IF n = 0 THEN {<<>>}
    ELSE LET shorter == SeqsUpTo(S, n - 1)
         IN  shorter \cup {Append(s, x) : s \in {t \in shorter : Len(t) = n - 1}, x \in S}
ItemsInputs == SeqsUpTo(LineInputs, MaxLines)
Requests ==
    [buyer_id : {B1}, umkm_id : {M1}, items : ItemsInputs, pickup_time : PickupInputs]
    \cup [buyer_id : {B1}, umkm_id : {M3}, items : {<<>>, <<Line(P1, 1)>>},
          pickup_time : {NoPickup}]

(* ---------------------- Python float arithmetic ------------------------ *)
(* rating_average, discount_value / 100 and the discounts are Python       *)
(* floats: IEEE 754 binary64, every operation rounded to the nearest value *)
(* of 53 significant bits, ties to the even one.  A natural number of any  *)
(* size is the sequence of its digits in base 2^15, least significant      *)
(* first, with no zero at the top; a float is [neg, sig, exp], of value    *)
(* (-1)^neg * sig * 2^exp with sig odd, or sig empty for zero.  The values *)
(* of the program are far from the subnormal and the overflow range, which *)
(* are not modelled.                                                       *)
Precision == 53
DigitBits == 15

Pow2(k) == 2 ^ k
Base == Pow2(DigitBits)

RECURSIVE Trim(_)
Trim(b) ==
    IF Len(b) = 0 \/ b[Len(b)] # 0 THEN b ELSE Trim(SubSeq(b, 1, Len(b) - 1))

RECURSIVE DigitsOf(_)
DigitsOf(n) == IF n = 0 THEN <<>> ELSE <<n % Base>> \o DigitsOf(n \div Base)

(* The digits of the number whose digits (of any size) are d, plus carry c *)
RECURSIVE Carry(_, _)
Carry(d, c) ==
    IF Len(d) = 0 THEN DigitsOf(c)
    ELSE <<(d[1] + c) % Base>> \o Carry(Tail(d), (d[1] + c) \div Base)

(* b * c, for 0 <= c < 2^16 *)
Times(b, c) ==
    IF Len(b) = 0 \/ c = 0 THEN <<>> ELSE Trim(Carry([i \in 1..Len(b) |-> b[i] * c], 0))

Plus(a, b) ==
    LET n == IF Len(a) > Len(b) THEN Len(a) ELSE Len(b)
        digit(x, i) == IF i <= Len(x) THEN x[i] ELSE 0
    IN  Trim(Carry([i \in 1..n |-> digit(a, i) + digit(b, i)], 0))

(* Long division by c, 0 < c < 2^16, from the top digit: the digits of the *)
(* quotient and the remainder.                                             *)
RECURSIVE DivMod(_, _)
DivMod(b, c) ==
    IF Len(b) = 0 THEN [q |-> <<>>, r |-> 0]
    ELSE LET hi == DivMod(Tail(b), c)
             cur == Base * hi.r + Head(b)
         IN  [q |-> <<cur \div c>> \o hi.q, r |-> cur % c]

(* b * 2^k *)
ShiftLeft(b, k) ==
    IF Len(b) = 0 THEN <<>>
    ELSE [i \in 1..(k \div DigitBits) |-> 0] \o Times(b, Pow2(k % DigitBits))

(* b \div 2^k, and whether a bit was dropped *)
ShiftRight(b, k) ==
    LET whole == k \div DigitBits
        upper == SubSeq(b, whole + 1, Len(b))
        d == DivMod(upper, Pow2(k % DigitBits))
    IN  [q |-> Trim(d.q),
         dropped |-> d.r # 0 \/ \E i \in 1..whole : i <= Len(b) /\ b[i] # 0]

(* The number of bits of n, 0 <= n < 2^30 *)
BitLengthOfInt(n) == CHOOSE k \in 0..30 : n < Pow2(k) /\ (k = 0 \/ Pow2(k - 1) <= n)
BitLength(b) ==
    IF Len(b) = 0 THEN 0 ELSE DigitBits * (Len(b) - 1) + BitLengthOfInt(b[Len(b)])

(* a < b *)
RECURSIVE LessDigits(_, _)
LessDigits(a, b) ==
    IF Len(a) # Len(b) THEN Len(a) < Len(b)
    ELSE IF Len(a) = 0 THEN FALSE
    ELSE IF a[Len(a)] # b[Len(b)] THEN a[Len(a)] < b[Len(b)]
    ELSE LessDigits(SubSeq(a, 1, Len(a) - 1), SubSeq(b, 1, Len(b) - 1))

(* The number of zero bits at the bottom of b # 0 *)
TrailingZeros(b) ==
    LET first == CHOOSE i \in 1..Len(b) : b[i] # 0 /\ \A j \in 1..(i - 1) : b[j] = 0
        bits == CHOOSE k \in 0..(DigitBits - 1) :
                    b[first] % Pow2(k + 1) # 0 /\ b[first] % Pow2(k) = 0
    IN  DigitBits * (first - 1) + bits

Canon(neg, b, e) ==
    IF Len(b) = 0 THEN [neg |-> FALSE, sig |-> <<>>, exp |-> 0]
    ELSE [neg |-> neg, sig |-> ShiftRight(b, TrailingZeros(b)).q,
          exp |-> e + TrailingZeros(b)]

(* The float nearest to b * 2^e (plus a fraction below the last bit of b   *)
(* when sticky), ties to even.                                             *)
RoundNearestEven(neg, b, e, sticky) ==
    IF BitLength(b) <= Precision THEN Canon(neg, b, e)
    ELSE LET j == BitLength(b) - Precision
             low == ShiftRight(b, j - 1)
             kept == ShiftRight(low.q, 1).q
             rest == sticky \/ low.dropped
             up == low.q[1] % 2 = 1 /\ (rest \/ kept[1] % 2 = 1)
         IN  Canon(neg, IF up THEN Plus(kept, <<1>>) ELSE kept, e + j)

FloatOfInt(n) == Canon(n < 0, DigitsOf(IF n < 0 THEN 0 - n ELSE n), 0)

(* x * c for a float x >= 0 and an int c, 0 <= c < 2^16 *)
float_mul_int(x, c) ==
    IF Len(x.sig) = 0 \/ c = 0 THEN FloatOfInt(0)
    ELSE RoundNearestEven(FALSE, Times(x.sig, c), x.exp, FALSE)

(* x + s for a float x >= 0 and an int s >= 0 *)
float_add_int(x, s) ==
    IF Len(x.sig) = 0 THEN FloatOfInt(s)
    ELSE LET e == IF x.exp < 0 THEN x.exp ELSE 0
         IN  RoundNearestEven(FALSE, Plus(ShiftLeft(x.sig, x.exp - e),
                                          ShiftLeft(DigitsOf(s), 0 - e)), e, FALSE)

(* x / c for a float x >= 0 and an int c, 0 < c < 2^16: the dividend is    *)
(* widened so that the quotient has bits beyond the precision.             *)
float_div_int(x, c) ==
    IF Len(x.sig) = 0 THEN FloatOfInt(0)
    ELSE LET wide == Precision + 2 + BitLengthOfInt(c)
             k == IF BitLength(x.sig) < wide THEN wide - BitLength(x.sig) ELSE 0
             d == DivMod(ShiftLeft(x.sig, k), c)
         IN  RoundNearestEven(FALSE, Trim(d.q), x.exp - k, d.r # 0)

float_lt(x, y) ==
    LET e == IF x.exp < y.exp THEN x.exp ELSE y.exp
        mx == ShiftLeft(x.sig, x.exp - e)
        my == ShiftLeft(y.sig, y.exp - e)
    IN  IF x.neg # y.neg THEN x.neg
        ELSE IF x.neg THEN LessDigits(my, mx)
        ELSE LessDigits(mx, my)

float_le(x, y) == ~float_lt(y, x)

(* min(x, y) of Python: y when y < x, else x *)
float_min(x, y) == IF float_lt(y, x) THEN y ELSE x

(* ------------------------------ users --------------------------------- *)
users ==
    [u \in {B1, S1, S2, A1} |->
        [role |-> CASE u = B1 -> "buyer" [] u = A1 -> "admin" [] OTHER -> "seller",
         is_active |-> TRUE]]
can_moderate(u) == u.role = "admin" /\ u.is_active

VARIABLES umkms, products, orders, now, last, reqs, reviews, promos
vars == <<umkms, products, orders, now, last, reqs, reviews, promos>>

(* ------------------------- Product entity ----------------------------- *)
(* Mutant: the stock check only asks for some stock, not for the quantity.  *)
can_be_ordered_some_stock(p, quantity) ==
    IF ~p.is_available THEN FALSE
    ELSE IF p.stock_quantity = Unlimited THEN TRUE
    ELSE p.stock_quantity[1] > 0

can_be_ordered(p, quantity) ==
    IF ~p.is_available THEN FALSE
    ELSE IF p.stock_quantity = Unlimited THEN TRUE
    ELSE p.stock_quantity[1] >= quantity

(* Mutant: one unit is taken whatever the quantity.                        *)
reduce_stock_by_one(p, quantity) ==
    IF p.stock_quantity = Unlimited THEN [err |-> OK, product |-> p]
    ELSE IF ~can_be_ordered(p, quantity)
         THEN [err |-> "Insufficient stock", product |-> p]
    ELSE [err |-> OK, product |-> [p EXCEPT !.stock_quantity = InStock(p.stock_quantity[1] - 1)]]

(* Mutant: += written for -=.                                              *)
reduce_stock_adds(p, quantity) ==
    IF p.stock_quantity = Unlimited THEN [err |-> OK, product |-> p]
    ELSE IF ~can_be_ordered(p, quantity)
         THEN [err |-> "Insufficient stock", product |-> p]
    ELSE [err |-> OK,
          product |-> [p EXCEPT !.stock_quantity = InStock(p.stock_quantity[1] + quantity)]]

reduce_stock(p, quantity) ==
    IF p.stock_quantity = Unlimited THEN [err |-> OK, product |-> p]
    ELSE IF ~can_be_ordered(p, quantity)
         THEN [err |-> "Insufficient stock", product |-> p]
    ELSE [err |-> OK,
          product |-> [p EXCEPT !.stock_quantity = InStock(p.stock_quantity[1] - quantity)]]

(* Mutant: = written for +=.                                               *)
increase_stock_assigns(p, quantity) ==
    IF quantity <= 0 THEN [err |-> "Quantity must be positive", product |-> p]
    ELSE IF p.stock_quantity # Unlimited
         THEN [err |-> OK, product |-> [p EXCEPT !.stock_quantity = InStock(quantity)]]
    ELSE [err |-> OK, product |-> p]

(* Mutant: a missing stock is counted as 0.                                *)
increase_stock_from_nothing(p, quantity) ==
    IF quantity <= 0 THEN [err |-> "Quantity must be positive", product |-> p]
    ELSE IF p.stock_quantity = Unlimited
         THEN [err |-> OK, product |-> [p EXCEPT !.stock_quantity = InStock(quantity)]]
    ELSE [err |-> OK,
          product |-> [p EXCEPT !.stock_quantity = InStock(p.stock_quantity[1] + quantity)]]

(* Mutant: nothing is given back to a product that is switched off.        *)
increase_stock_if_available(p, quantity) ==
    IF quantity <= 0 THEN [err |-> "Quantity must be positive", product |-> p]
    ELSE IF p.stock_quantity # Unlimited /\ p.is_available
         THEN [err |-> OK,
               product |-> [p EXCEPT !.stock_quantity = InStock(p.stock_quantity[1] + quantity)]]
    ELSE [err |-> OK, product |-> p]

increase_stock(p, quantity) ==
    IF quantity <= 0 THEN [err |-> "Quantity must be positive", product |-> p]
    ELSE IF p.stock_quantity # Unlimited
         THEN [err |-> OK,
               product |-> [p EXCEPT !.stock_quantity = InStock(p.stock_quantity[1] + quantity)]]
    ELSE [err |-> OK, product |-> p]

mark_available(p) == [p EXCEPT !.is_available = TRUE]
mark_unavailable(p) == [p EXCEPT !.is_available = FALSE]

update_price(p, new_price) ==
    IF new_price <= 0 THEN [err |-> "Price must be greater than 0", product |-> p]
    ELSE [err |-> OK, product |-> [p EXCEPT !.price = new_price]]

(* update_info with the name argument: <<>> is "not given" (None).         *)
update_info(p, name) ==
    IF name = <<>> THEN [err |-> OK, product |-> p]
    ELSE IF Len(name[1]) < 2
         THEN [err |-> "Product name must be at least 2 characters", product |-> p]
    ELSE [err |-> OK, product |-> [p EXCEPT !.name = name[1]]]

(* --------------------------- UMKM entity ------------------------------ *)
(* Mutant: a merchant awaiting approval is let through.                    *)
can_accept_orders_unless_stopped(u) == u.status \in {"active", "pending"}

can_accept_orders(u) == u.status = "active"

(* Mutant: the range check lets a score of 0 through.                      *)
update_rating_from_zero(u, new_rating) ==
    IF new_rating < 0 \/ new_rating > 5
    THEN [err |-> "Rating must be between 1 and 5", umkm |-> u]
    ELSE
      LET total_rating == float_mul_int(u.rating_average, u.rating_count)
          rating_count == u.rating_count + 1
      IN  [err |-> OK,
           umkm |-> [u EXCEPT !.rating_count = rating_count,
                              !.rating_average =
                                  float_div_int(float_add_int(total_rating, new_rating),
                                                rating_count)]]

(* Mutant: the new score is folded in with the weight of the old average.  *)
update_rating_halves(u, new_rating) ==
    IF new_rating < 1 \/ new_rating > 5
    THEN [err |-> "Rating must be between 1 and 5", umkm |-> u]
    ELSE
      LET rating_count == u.rating_count + 1
      IN  [err |-> OK,
           umkm |-> [u EXCEPT !.rating_count = rating_count,
                              !.rating_average =
                                  IF u.rating_count = 0 THEN FloatOfInt(new_rating)
                                  ELSE float_div_int(float_add_int(u.rating_average,
                                                                   new_rating), 2)]]

(* total_rating = rating_average * rating_count; rating_count += 1;        *)
(* rating_average = (total_rating + new_rating) / rating_count, in floats. *)
update_rating(u, new_rating) ==
    IF new_rating < 1 \/ new_rating > 5
    THEN [err |-> "Rating must be between 1 and 5", umkm |-> u]
    ELSE
      LET total_rating == float_mul_int(u.rating_average, u.rating_count)
          rating_count == u.rating_count + 1
      IN  [err |-> OK,
           umkm |-> [u EXCEPT !.rating_count = rating_count,
                              !.rating_average =
                                  float_div_int(float_add_int(total_rating, new_rating),
                                                rating_count)]]

approve(u) ==
    IF u.status # "pending"
    THEN [err |-> "Only pending UMKMs can be approved", umkm |-> u]
    ELSE [err |-> OK, umkm |-> [u EXCEPT !.status = "active"]]

suspend(u) ==
    IF u.status = "closed"
    THEN [err |-> "Cannot suspend a closed UMKM", umkm |-> u]
    ELSE [err |-> OK, umkm |-> [u EXCEPT !.status = "suspended"]]

close(u) == [err |-> OK, umkm |-> [u EXCEPT !.status = "closed"]]

(* Mutants: reactivate as its docstring reads (a suspended merchant only), *)
(* and reactivate without the guard against a closed merchant.            *)
reactivate_only_suspended(u) ==
    IF u.status # "suspended"
    THEN [err |-> "Cannot reactivate a closed UMKM", umkm |-> u]
    ELSE [err |-> OK, umkm |-> [u EXCEPT !.status = "active"]]

reactivate_unconditionally(u) == [err |-> OK, umkm |-> [u EXCEPT !.status = "active"]]

reactivate(u) ==
    IF u.status = "closed"
    THEN [err |-> "Cannot reactivate a closed UMKM", umkm |-> u]
    ELSE [err |-> OK, umkm |-> [u EXCEPT !.status = "active"]]

(* --------------------------- Order entity ----------------------------- *)
(* Mutant: the quantity of a line is not checked when the line is built.   *)
OrderItem_any_quantity(product_id, product_name, quantity, unit_price) ==
    IF unit_price <= 0 THEN [err |-> "Unit price must be positive"]
    ELSE [err |-> OK,
          item |-> [product_id |-> product_id, product_name |-> product_name,
                    quantity |-> quantity, unit_price |-> unit_price]]

OrderItem(product_id, product_name, quantity, unit_price) ==
    IF quantity <= 0 THEN [err |-> "Quantity must be positive"]
    ELSE IF unit_price <= 0 THEN [err |-> "Unit price must be positive"]
    ELSE [err |-> OK,
          item |-> [product_id |-> product_id, product_name |-> product_name,
                    quantity |-> quantity, unit_price |-> unit_price]]

(* Mutant: the quantity is left out of the subtotal.                       *)
subtotal_unit_price(item) == item.unit_price

subtotal(item) == item.quantity * item.unit_price

RECURSIVE SumSubtotals(_, _)
SumSubtotals(items, i) ==
    IF i > Len(items) THEN 0 ELSE subtotal(items[i]) + SumSubtotals(items, i + 1)
calculate_total(items) == SumSubtotals(items, 1)

(* Mutant: < written for <= in the pickup time check.                      *)
validate_order_pickup_not_before(items, pickup_time, total_amount, t) ==
    IF Len(items) = 0 THEN "Order must have at least one item"
    ELSE IF pickup_time # NoPickup /\ pickup_time < t
         THEN "Pickup time must be in the future"
    ELSE IF total_amount <= 0 THEN "Order total must be positive"
    ELSE OK

validate_order(items, pickup_time, total_amount, t) ==
    IF Len(items) = 0 THEN "Order must have at least one item"
    ELSE IF pickup_time # NoPickup /\ pickup_time <= t
         THEN "Pickup time must be in the future"
    ELSE IF total_amount <= 0 THEN "Order total must be positive"
    ELSE OK

NewOrder(buyer_id, umkm_id, items, pickup_time, t) ==
    LET total == calculate_total(items)
        verdict == validate_order(items, pickup_time, total, t)
    IN  IF verdict # OK THEN [err |-> verdict]
        ELSE [err |-> OK,
              order |-> [buyer_id |-> buyer_id, umkm_id |-> umkm_id, items |-> items,
                         status |-> "placed", total_amount |-> total,
                         cancelled_at |-> NoTime, cancellation_reason |-> NoReason]]

(* Mutants: one of the two terminal statuses is missing from the list.     *)
can_be_cancelled_unless_cancelled(o) == o.status \notin {"cancelled"}
can_be_cancelled_unless_completed(o) == o.status \notin {"completed"}

can_be_cancelled(o) == o.status \notin {"completed", "cancelled"}
can_be_confirmed(o) == o.status = "placed"

confirm(o) ==
    IF ~can_be_confirmed(o)
    THEN [err |-> "Cannot confirm order in status", status_named |-> o.status, order |-> o]
    ELSE [err |-> OK, status_named |-> o.status, order |-> [o EXCEPT !.status = "confirmed"]]

mark_preparing(o) ==
    IF o.status # "confirmed"
    THEN [err |-> "Only confirmed orders can be marked as preparing",
          status_named |-> "", order |-> o]
    ELSE [err |-> OK, status_named |-> "", order |-> [o EXCEPT !.status = "preparing"]]

mark_ready(o) ==
    IF o.status # "preparing"
    THEN [err |-> "Only preparing orders can be marked as ready",
          status_named |-> "", order |-> o]
    ELSE [err |-> OK, status_named |-> "", order |-> [o EXCEPT !.status = "ready"]]

(* Mutant: an order still being prepared can be completed.                 *)
complete_from_preparing(o) ==
    IF o.status \notin {"ready", "preparing"}
    THEN [err |-> "Only ready orders can be completed", status_named |-> "", order |-> o]
    ELSE [err |-> OK, status_named |-> "", order |-> [o EXCEPT !.status = "completed"]]

complete(o) ==
    IF o.status # "ready"
    THEN [err |-> "Only ready orders can be completed", status_named |-> "", order |-> o]
    ELSE [err |-> OK, status_named |-> "", order |-> [o EXCEPT !.status = "completed"]]

(* Mutant: the time of the cancellation is not recorded.                   *)
cancel_without_timestamp(o, reason, t) ==
    IF ~can_be_cancelled(o)
    THEN [err |-> "Cannot cancel order in status", status_named |-> o.status, order |-> o]
    ELSE [err |-> OK, status_named |-> o.status,
          order |-> [o EXCEPT !.status = "cancelled", !.cancellation_reason = reason]]

cancel(o, reason, t) ==
    IF ~can_be_cancelled(o)
    THEN [err |-> "Cannot cancel order in status", status_named |-> o.status, order |-> o]
    ELSE [err |-> OK, status_named |-> o.status,
          order |-> [o EXCEPT !.status = "cancelled", !.cancelled_at = t,
                              !.cancellation_reason = reason]]

(* --------------------------- repositories ----------------------------- *)
find_by_id(store, id) == IF id \in DOMAIN store THEN <<store[id]>> ELSE <<>>
save(store, id, entity) == [k \in DOMAIN store \cup {id} |-> IF k = id THEN entity ELSE store[k]]
next_order_id(os) == Cardinality(DOMAIN os) + 1

(* ---------------------- OrderService.create_order --------------------- *)
(* Mutant: the merchant of the product is not compared.                    *)
process_line_any_merchant(ps, umkm_id, line) ==
    LET found == find_by_id(ps, line.product_id)
    IN  IF found = <<>> THEN [err |-> "Product not found"]
        ELSE
          LET product == found[1]
          IN  IF ~can_be_ordered(product, line.quantity)
              THEN [err |-> "Product is not available in requested quantity"]
              ELSE
                LET made == OrderItem(line.product_id, product.name, line.quantity,
                                      product.price)
                IN  IF made.err # OK THEN [err |-> made.err]
                    ELSE
                      LET reduced == reduce_stock(product, line.quantity)
                      IN  IF reduced.err # OK THEN [err |-> reduced.err]
                          ELSE [err |-> OK, item |-> made.item,
                                product |-> reduced.product]

process_line(ps, umkm_id, line) ==
    LET found == find_by_id(ps, line.product_id)
    IN  IF found = <<>> THEN [err |-> "Product not found"]
        ELSE
          LET product == found[1]
          IN  IF product.umkm_id # umkm_id
              THEN [err |-> "Product does not belong to this UMKM"]
              ELSE IF ~can_be_ordered(product, line.quantity)
              THEN [err |-> "Product is not available in requested quantity"]
              ELSE
                LET made == OrderItem(line.product_id, product.name, line.quantity,
                                      product.price)
                IN  IF made.err # OK THEN [err |-> made.err]
                    ELSE
                      LET reduced == reduce_stock(product, line.quantity)
                      IN  IF reduced.err # OK THEN [err |-> reduced.err]
                          ELSE [err |-> OK, item |-> made.item,
                                product |-> reduced.product]

(* Mutant: the reduced product is not saved between the lines.            *)
RECURSIVE reserve_lines_without_save(_, _, _, _, _)
reserve_lines_without_save(ps, umkm_id, lines, i, acc) ==
    IF i > Len(lines)
    THEN [err |-> OK, products |-> ps, items |-> acc, reserved |-> i - 1]
    ELSE
      LET step == process_line(ps, umkm_id, lines[i])
      IN  IF step.err # OK
          THEN [err |-> step.err, products |-> ps, items |-> acc, reserved |-> i - 1]
          ELSE reserve_lines_without_save(ps, umkm_id, lines, i + 1, Append(acc, step.item))

RECURSIVE reserve_lines(_, _, _, _, _)
reserve_lines(ps, umkm_id, lines, i, acc) ==
    IF i > Len(lines)
    THEN [err |-> OK, products |-> ps, items |-> acc, reserved |-> i - 1]
    ELSE
      LET step == process_line(ps, umkm_id, lines[i])
      IN  IF step.err # OK
          THEN [err |-> step.err, products |-> ps, items |-> acc, reserved |-> i - 1]
          ELSE reserve_lines(save(ps, lines[i].product_id, step.product),
                             umkm_id, lines, i + 1, Append(acc, step.item))

(* Mutant: a failure hands back the products as they were before the loop. *)
create_order_rolls_back(us, ps, os, t, req) ==
    LET umkm == find_by_id(us, req.umkm_id)
        out(e, ps2, os2, n, oid) ==
            [err |-> e, products |-> ps2, orders |-> os2, reserved |-> n, order_id |-> oid]
    IN  IF umkm = <<>> THEN out("UMKM not found", ps, os, 0, NoOrder)
        ELSE IF ~can_accept_orders(umkm[1])
        THEN out("UMKM is not accepting orders", ps, os, 0, NoOrder)
        ELSE
          LET loop == reserve_lines(ps, req.umkm_id, req.items, 1, <<>>)
          IN  IF loop.err # OK
              THEN out(loop.err, ps, os, loop.reserved, NoOrder)
              ELSE
                LET built == NewOrder(req.buyer_id, req.umkm_id, loop.items,
                                      req.pickup_time, t)
                IN  IF built.err # OK
                    THEN out(built.err, ps, os, loop.reserved, NoOrder)
                    ELSE out(OK, loop.products,
                             save(os, next_order_id(os), built.order),
                             loop.reserved, next_order_id(os))

create_order(us, ps, os, t, req) ==
    LET umkm == find_by_id(us, req.umkm_id)
        out(e, ps2, os2, n, oid) ==
            [err |-> e, products |-> ps2, orders |-> os2, reserved |-> n, order_id |-> oid]
    IN  IF umkm = <<>> THEN out("UMKM not found", ps, os, 0, NoOrder)
        ELSE IF ~can_accept_orders(umkm[1])
        THEN out("UMKM is not accepting orders", ps, os, 0, NoOrder)
        ELSE
          LET loop == reserve_lines(ps, req.umkm_id, req.items, 1, <<>>)
          IN  IF loop.err # OK
              THEN out(loop.err, loop.products, os, loop.reserved, NoOrder)
              ELSE
                LET built == NewOrder(req.buyer_id, req.umkm_id, loop.items,
                                      req.pickup_time, t)
                IN  IF built.err # OK
                    THEN out(built.err, loop.products, os, loop.reserved, NoOrder)
                    ELSE out(OK, loop.products,
                             save(os, next_order_id(os), built.order),
                             loop.reserved, next_order_id(os))

(* ----------- OrderService.confirm_order / update_order_status --------- *)
(* Mutant: any merchant owner passes for the owner of this merchant.       *)
owns_some_umkm(us, umkm_id, user_id) == \E m \in DOMAIN us : us[m].owner_id = user_id

(* Mutant: only the owner of a merchant that is Active passes.             *)
owns_operating_umkm(us, umkm_id, user_id) ==
    LET umkm == find_by_id(us, umkm_id)
    IN  umkm # <<>> /\ umkm[1].owner_id = user_id /\ umkm[1].status = "active"

owns_umkm(us, umkm_id, user_id) ==
    LET umkm == find_by_id(us, umkm_id)
    IN  umkm # <<>> /\ umkm[1].owner_id = user_id

confirm_order(us, os, order_id, seller_id) ==
    LET found == find_by_id(os, order_id)
    IN  IF found = <<>> THEN [err |-> "Order not found", orders |-> os]
        ELSE IF ~owns_umkm(us, found[1].umkm_id, seller_id)
        THEN [err |-> "Unauthorized: You don't own this UMKM", orders |-> os]
        ELSE
          LET done == confirm(found[1])
          IN  IF done.err # OK THEN [err |-> done.err, orders |-> os]
              ELSE [err |-> OK, orders |-> save(os, order_id, done.order)]

(* Mutant: the branch for "ready" calls complete.                          *)
dispatch_status_ready_completes(o, new_status) ==
    CASE new_status = "confirmed" -> confirm(o)
      [] new_status = "preparing" -> mark_preparing(o)
      [] new_status = "ready" -> complete(o)
      [] new_status = "completed" -> complete(o)
      [] OTHER -> [err |-> "Invalid status", status_named |-> new_status, order |-> o]

dispatch_status(o, new_status) ==
    CASE new_status = "confirmed" -> confirm(o)
      [] new_status = "preparing" -> mark_preparing(o)
      [] new_status = "ready" -> mark_ready(o)
      [] new_status = "completed" -> complete(o)
      [] OTHER -> [err |-> "Invalid status", status_named |-> new_status, order |-> o]

(* Mutant: the transition is made and saved before the owner is checked.   *)
update_order_status_checks_owner_late(us, os, order_id, seller_id, new_status) ==
    LET found == find_by_id(os, order_id)
    IN  IF found = <<>> THEN [err |-> "Order not found", orders |-> os]
        ELSE
          LET done == dispatch_status(found[1], new_status)
              saved == IF done.err # OK THEN os ELSE save(os, order_id, done.order)
          IN  IF ~owns_umkm(us, found[1].umkm_id, seller_id)
              THEN [err |-> "Unauthorized: You don't own this UMKM", orders |-> saved]
              ELSE [err |-> done.err, orders |-> saved]

update_order_status(us, os, order_id, seller_id, new_status) ==
    LET found == find_by_id(os, order_id)
    IN  IF found = <<>> THEN [err |-> "Order not found", orders |-> os]
        ELSE IF ~owns_umkm(us, found[1].umkm_id, seller_id)
        THEN [err |-> "Unauthorized: You don't own this UMKM", orders |-> os]
        ELSE
          LET done == dispatch_status(found[1], new_status)
          IN  IF done.err # OK THEN [err |-> done.err, orders |-> os]
              ELSE [err |-> OK, orders |-> save(os, order_id, done.order)]

(* ---------------------- OrderService.cancel_order --------------------- *)
(* Mutant: the restored product is never written back to the store.       *)
RECURSIVE restore_lines_without_save(_, _, _)
restore_lines_without_save(ps, items, i) ==
    IF i > Len(items) THEN [err |-> OK, products |-> ps]
    ELSE
      LET found == find_by_id(ps, items[i].product_id)
      IN  IF found = <<>> THEN restore_lines_without_save(ps, items, i + 1)
          ELSE
            LET grown == increase_stock(found[1], items[i].quantity)
            IN  IF grown.err # OK THEN [err |-> grown.err, products |-> ps]
                ELSE restore_lines_without_save(ps, items, i + 1)

(* Mutant: a line whose product is gone stops the restoration.             *)
RECURSIVE restore_lines_requires_product(_, _, _)
restore_lines_requires_product(ps, items, i) ==
    IF i > Len(items) THEN [err |-> OK, products |-> ps]
    ELSE
      LET found == find_by_id(ps, items[i].product_id)
      IN  IF found = <<>> THEN [err |-> "Product not found", products |-> ps]
          ELSE
            LET grown == increase_stock(found[1], items[i].quantity)
            IN  IF grown.err # OK THEN [err |-> grown.err, products |-> ps]
                ELSE restore_lines_requires_product(
                        save(ps, items[i].product_id, grown.product), items, i + 1)

RECURSIVE restore_lines(_, _, _)
restore_lines(ps, items, i) ==
    IF i > Len(items) THEN [err |-> OK, products |-> ps]
    ELSE
      LET found == find_by_id(ps, items[i].product_id)
      IN  IF found = <<>> THEN restore_lines(ps, items, i + 1)
          ELSE
            LET grown == increase_stock(found[1], items[i].quantity)
            IN  IF grown.err # OK THEN [err |-> grown.err, products |-> ps]
                ELSE restore_lines(save(ps, items[i].product_id, grown.product),
                                   items, i + 1)

cancel_order(us, ps, os, t, order_id, user_id, reason) ==
    LET found == find_by_id(os, order_id)
        out(e, ps2, os2) == [err |-> e, products |-> ps2, orders |-> os2]
    IN  IF found = <<>> THEN out("Order not found", ps, os)
        ELSE
          LET order == found[1]
              is_buyer == order.buyer_id = user_id
              is_seller == owns_umkm(us, order.umkm_id, user_id)
          IN  IF ~(is_buyer \/ is_seller)
              THEN out("Unauthorized: You cannot cancel this order", ps, os)
              ELSE IF ~can_be_cancelled(order)
              THEN out("Order cannot be cancelled", ps, os)
              ELSE
                LET restored == restore_lines(ps, order.items, 1)
                IN  IF restored.err # OK THEN out(restored.err, restored.products, os)
                    ELSE
                      LET done == cancel(order, reason, t)
                      IN  IF done.err # OK THEN out(done.err, restored.products, os)
                          ELSE out(OK, restored.products,
                                   save(os, order_id, done.order))

(* ------- ProductService.update_product_stock / toggle availability ---- *)
update_product_stock(us, ps, product_id, seller_id, new_stock) ==
    LET found == find_by_id(ps, product_id)
    IN  IF found = <<>> THEN [err |-> "Product not found", products |-> ps]
        ELSE IF ~owns_umkm(us, found[1].umkm_id, seller_id)
        THEN [err |-> "Unauthorized: You don't own this product's UMKM", products |-> ps]
        ELSE IF new_stock < 0 THEN [err |-> "Stock cannot be negative", products |-> ps]
        ELSE [err |-> OK,
              products |-> save(ps, product_id,
                                [found[1] EXCEPT !.stock_quantity = InStock(new_stock)])]

toggle_product_availability(us, ps, product_id, seller_id, available) ==
    LET found == find_by_id(ps, product_id)
    IN  IF found = <<>> THEN [err |-> "Product not found", products |-> ps]
        ELSE IF ~owns_umkm(us, found[1].umkm_id, seller_id)
        THEN [err |-> "Unauthorized: You don't own this product's UMKM", products |-> ps]
        ELSE [err |-> OK,
              products |-> save(ps, product_id,
                                IF available THEN mark_available(found[1])
                                ELSE mark_unavailable(found[1]))]

(* -------------------- ProductService.delete_product -------------------- *)
delete(store, id) == [k \in DOMAIN store \ {id} |-> store[k]]

delete_product(us, ps, product_id, seller_id) ==
    LET found == find_by_id(ps, product_id)
    IN  IF found = <<>> THEN [err |-> "Product not found", products |-> ps]
        ELSE IF ~owns_umkm(us, found[1].umkm_id, seller_id)
        THEN [err |-> "Unauthorized: You don't own this product's UMKM", products |-> ps]
        ELSE [err |-> OK, products |-> delete(ps, product_id)]

(* -------------------- ProductService.create_product -------------------- *)
(* The constructor of Product: the name is a string, the description is    *)
(* kept by whether it is given, the stock is None or a number; a product   *)
(* is built available.                                                     *)
Product(umkm_id, name, has_description, price, stock_quantity) ==
    IF Len(name) < 2 THEN [err |-> "Product name must be at least 2 characters"]
    ELSE IF ~has_description THEN [err |-> "Product description is required"]
    ELSE IF price <= 0 THEN [err |-> "Price must be greater than 0"]
    ELSE IF stock_quantity # Unlimited /\ stock_quantity[1] < 0
         THEN [err |-> "Stock quantity cannot be negative"]
    ELSE [err |-> OK,
          product |-> [umkm_id |-> umkm_id, name |-> name, price |-> price,
                       stock_quantity |-> stock_quantity, is_available |-> TRUE]]

(* The id of a new product is fresh: of the ids new products draw, the     *)
(* first that neither the store nor a line of a stored order names, <<>>   *)
(* when they are used up.                                                  *)
P5 == "p5"
FreshProductIds == <<P5>>
next_product_id(ps, os) ==
    LET named(p) == \/ p \in DOMAIN ps
                    \/ \E o \in DOMAIN os : \E i \in 1..Len(os[o].items) :
                          os[o].items[i].product_id = p
        free == {i \in 1..Len(FreshProductIds) : ~named(FreshProductIds[i])}
    IN  IF free = {} THEN <<>>
        ELSE <<FreshProductIds[CHOOSE i \in free : \A j \in free : i <= j]>>

(* Only the owner of the merchant creates a product for it, whatever the   *)
(* status of the merchant.                                                 *)
create_product(us, ps, product_id, req) ==
    LET umkm == find_by_id(us, req.umkm_id)
    IN  IF umkm = <<>> THEN [err |-> "UMKM not found", products |-> ps]
        ELSE IF umkm[1].owner_id # req.seller_id
             THEN [err |-> "Unauthorized: You don't own this UMKM", products |-> ps]
        ELSE
          LET built == Product(req.umkm_id, req.name, req.has_description, req.price,
                               req.stock_quantity)
          IN  IF built.err # OK THEN [err |-> built.err, products |-> ps]
              ELSE [err |-> OK, products |-> save(ps, product_id, built.product)]

(* --------- ProductService.update_product / update_product_price ------- *)
update_product(us, ps, product_id, seller_id, name) ==
    LET found == find_by_id(ps, product_id)
    IN  IF found = <<>> THEN [err |-> "Product not found", products |-> ps]
        ELSE IF ~owns_umkm(us, found[1].umkm_id, seller_id)
        THEN [err |-> "Unauthorized: You don't own this product's UMKM", products |-> ps]
        ELSE
          LET done == update_info(found[1], name)
          IN  IF done.err # OK THEN [err |-> done.err, products |-> ps]
              ELSE [err |-> OK, products |-> save(ps, product_id, done.product)]

update_product_price(us, ps, product_id, seller_id, new_price) ==
    LET found == find_by_id(ps, product_id)
    IN  IF found = <<>> THEN [err |-> "Product not found", products |-> ps]
        ELSE IF ~owns_umkm(us, found[1].umkm_id, seller_id)
        THEN [err |-> "Unauthorized: You don't own this product's UMKM", products |-> ps]
        ELSE
          LET done == update_price(found[1], new_price)
          IN  IF done.err # OK THEN [err |-> done.err, products |-> ps]
              ELSE [err |-> OK, products |-> save(ps, product_id, done.product)]

(* ------------------ UMKMService.approve_umkm / suspend_umkm ----------- *)
is_admin(admin_id) == admin_id \in DOMAIN users /\ can_moderate(users[admin_id])

approve_umkm(us, umkm_id, admin_id) ==
    IF ~is_admin(admin_id) THEN [err |-> "Unauthorized: Admin access required", umkms |-> us]
    ELSE
      LET found == find_by_id(us, umkm_id)
      IN  IF found = <<>> THEN [err |-> "UMKM not found", umkms |-> us]
          ELSE
            LET done == approve(found[1])
            IN  IF done.err # OK THEN [err |-> done.err, umkms |-> us]
                ELSE [err |-> OK, umkms |-> save(us, umkm_id, done.umkm)]

suspend_umkm(us, umkm_id, admin_id) ==
    IF ~is_admin(admin_id) THEN [err |-> "Unauthorized: Admin access required", umkms |-> us]
    ELSE
      LET found == find_by_id(us, umkm_id)
      IN  IF found = <<>> THEN [err |-> "UMKM not found", umkms |-> us]
          ELSE
            LET done == suspend(found[1])
            IN  IF done.err # OK THEN [err |-> done.err, umkms |-> us]
                ELSE [err |-> OK, umkms |-> save(us, umkm_id, done.umkm)]

(* ----------------------- UMKMService.register_umkm -------------------- *)
(* The accounts registration looks owners up in: the users, a third       *)
(* seller, and a seller whose account is deactivated.  u0 is the id of no  *)
(* account.                                                                *)
S3 == "s3"
S4 == "s4"
U0 == "u0"
accounts ==
    [u \in DOMAIN users \cup {S3, S4} |->
        CASE u = S3 -> [role |-> "seller", is_active |-> TRUE]
          [] u = S4 -> [role |-> "seller", is_active |-> FALSE]
          [] OTHER -> users[u]]
can_sell_products(u) == u.role = "seller" /\ u.is_active

(* Of a merchant's name and description the validation reads the length,   *)
(* of its location and phone whether they are given.                       *)
MinNameLength == 3
MinDescriptionLength == 10
validate_umkm(name_length, description_length, has_location, has_phone) ==
    IF name_length < MinNameLength THEN "UMKM name must be at least 3 characters"
    ELSE IF description_length < MinDescriptionLength
         THEN "Description must be at least 10 characters"
    ELSE IF ~has_location THEN "Location is required"
    ELSE IF ~has_phone THEN "Phone number is required"
    ELSE OK

UMKM(owner_id, status) ==
    [owner_id |-> owner_id, status |-> status,
     rating_average |-> FloatOfInt(0), rating_count |-> 0]

(* Merchant ids are fresh; the store keeps the merchants in the order they *)
(* were first saved, which is the order the ids are handed out in.         *)
MerchantIds == <<M1, M2, M3>>
next_umkm_id(us) == MerchantIds[Cardinality(DOMAIN us) + 1]

(* The first stored merchant of the owner, <<>> when there is none.        *)
find_by_owner_id(us, owner_id) ==
    LET at == {i \in 1..Len(MerchantIds) :
                  MerchantIds[i] \in DOMAIN us /\ us[MerchantIds[i]].owner_id = owner_id}
    IN  IF at = {} THEN <<>>
        ELSE <<us[MerchantIds[CHOOSE i \in at : \A j \in at : i <= j]]>>

(* Mutant: an owner who has a merchant may register another.               *)
register_umkm_again(us, req) ==
    LET owner == find_by_id(accounts, req.owner_id)
    IN  IF owner = <<>> THEN [err |-> "Owner not found", umkms |-> us]
        ELSE IF ~can_sell_products(owner[1])
             THEN [err |-> "User must have seller role to register UMKM", umkms |-> us]
        ELSE IF validate_umkm(req.name_length, req.description_length,
                              req.has_location, req.has_phone) # OK
             THEN [err |-> validate_umkm(req.name_length, req.description_length,
                                         req.has_location, req.has_phone),
                   umkms |-> us]
        ELSE [err |-> OK,
              umkms |-> save(us, next_umkm_id(us), UMKM(req.owner_id, "pending"))]

register_umkm(us, req) ==
    LET owner == find_by_id(accounts, req.owner_id)
    IN  IF owner = <<>> THEN [err |-> "Owner not found", umkms |-> us]
        ELSE IF ~can_sell_products(owner[1])
             THEN [err |-> "User must have seller role to register UMKM", umkms |-> us]
        ELSE IF find_by_owner_id(us, req.owner_id) # <<>>
             THEN [err |-> "Owner already has a UMKM registered", umkms |-> us]
        ELSE IF validate_umkm(req.name_length, req.description_length,
                              req.has_location, req.has_phone) # OK
             THEN [err |-> validate_umkm(req.name_length, req.description_length,
                                         req.has_location, req.has_phone),
                   umkms |-> us]
        ELSE [err |-> OK,
              umkms |-> save(us, next_umkm_id(us), UMKM(req.owner_id, "pending"))]

(* ---------------------- ReviewService.create_review -------------------- *)
(* A review keeps its author, merchant, rating and order link; its comment *)
(* is kept by its length, the only thing the validation reads.             *)
MinCommentLength == 5
MaxCommentLength == 1000

validate_review(rating, comment_length) ==
    IF rating < 1 \/ rating > 5 THEN "Rating must be between 1 and 5"
    ELSE IF comment_length < MinCommentLength
         THEN "Review comment must be at least 5 characters"
    ELSE IF comment_length > MaxCommentLength
         THEN "Review comment cannot exceed 1000 characters"
    ELSE OK

Review(user_id, umkm_id, rating, comment_length, order_id) ==
    [user_id |-> user_id, umkm_id |-> umkm_id, rating |-> rating,
     comment_length |-> comment_length, order_id |-> order_id]

next_review_id(rs) == Cardinality(DOMAIN rs) + 1

(* Mutant: the merchant is rated and saved before the review is built.     *)
create_review_rates_first(us, os, rs, req) ==
    LET umkm == find_by_id(us, req.umkm_id)
        order == find_by_id(os, req.order_id)
        failed(e, us2) == [err |-> e, umkms |-> us2, reviews |-> rs]
    IN  IF umkm = <<>> THEN failed("UMKM not found", us)
        ELSE IF req.order_id # NoOrder /\ order = <<>> THEN failed("Order not found", us)
        ELSE IF req.order_id # NoOrder /\ order[1].buyer_id # req.user_id
             THEN failed("You can only review orders you made", us)
        ELSE IF req.order_id # NoOrder /\ order[1].umkm_id # req.umkm_id
             THEN failed("Order does not belong to this UMKM", us)
        ELSE
          LET rated == update_rating(umkm[1], req.rating)
          IN  IF rated.err # OK THEN failed(rated.err, us)
              ELSE IF validate_review(req.rating, req.comment_length) # OK
                   THEN failed(validate_review(req.rating, req.comment_length),
                               save(us, req.umkm_id, rated.umkm))
              ELSE [err |-> OK,
                    umkms |-> save(us, req.umkm_id, rated.umkm),
                    reviews |-> save(rs, next_review_id(rs),
                                     Review(req.user_id, req.umkm_id, req.rating,
                                            req.comment_length, req.order_id))]

create_review(us, os, rs, req) ==
    LET umkm == find_by_id(us, req.umkm_id)
        order == find_by_id(os, req.order_id)
        failed(e) == [err |-> e, umkms |-> us, reviews |-> rs]
    IN  IF umkm = <<>> THEN failed("UMKM not found")
        ELSE IF req.order_id # NoOrder /\ order = <<>> THEN failed("Order not found")
        ELSE IF req.order_id # NoOrder /\ order[1].buyer_id # req.user_id
             THEN failed("You can only review orders you made")
        ELSE IF req.order_id # NoOrder /\ order[1].umkm_id # req.umkm_id
             THEN failed("Order does not belong to this UMKM")
        ELSE IF validate_review(req.rating, req.comment_length) # OK
             THEN failed(validate_review(req.rating, req.comment_length))
        ELSE
          LET rated == update_rating(umkm[1], req.rating)
          IN  IF rated.err # OK THEN failed(rated.err)
              ELSE [err |-> OK,
                    umkms |-> save(us, req.umkm_id, rated.umkm),
                    reviews |-> save(rs, next_review_id(rs),
                                     Review(req.user_id, req.umkm_id, req.rating,
                                            req.comment_length, req.order_id))]

(* ---------------------- ReviewService.update_review -------------------- *)
(* update_content validates the new rating and comment and replaces both.  *)
update_content(review, new_rating, new_comment_length) ==
    IF new_rating < 1 \/ new_rating > 5
    THEN [err |-> "Rating must be between 1 and 5", review |-> review]
    ELSE IF new_comment_length < MinCommentLength
         THEN [err |-> "Review comment must be at least 5 characters", review |-> review]
    ELSE IF new_comment_length > MaxCommentLength
         THEN [err |-> "Review comment cannot exceed 1000 characters", review |-> review]
    ELSE [err |-> OK,
          review |-> [review EXCEPT !.rating = new_rating,
                                    !.comment_length = new_comment_length]]

(* Only the author updates a review; the service reads and writes the      *)
(* review store alone.                                                     *)
update_review(rs, review_id, user_id, new_rating, new_comment_length) ==
    LET found == find_by_id(rs, review_id)
    IN  IF found = <<>> THEN [err |-> "Review not found", reviews |-> rs]
        ELSE IF found[1].user_id # user_id
             THEN [err |-> "Unauthorized: You can only update your own reviews",
                   reviews |-> rs]
        ELSE
          LET updated == update_content(found[1], new_rating, new_comment_length)
          IN  IF updated.err # OK THEN [err |-> updated.err, reviews |-> rs]
              ELSE [err |-> OK, reviews |-> save(rs, review_id, updated.review)]

(* --------------------------- Promo entity ----------------------------- *)
(* A promo keeps its type, discount value, validity window, optional       *)
(* minimum purchase, maximum discount and usage limit (<<>> for None),     *)
(* usage count and active flag; its title and description are well formed. *)
Promo(promo_type, discount_value, valid_from, valid_until, min_purchase, max_discount, usage_limit) ==
    [promo_type |-> promo_type, discount_value |-> discount_value,
     valid_from |-> valid_from, valid_until |-> valid_until,
     min_purchase |-> min_purchase, max_discount |-> max_discount,
     usage_limit |-> usage_limit, usage_count |-> 0, is_active |-> TRUE]

validate_promo(p) ==
    IF p.valid_from >= p.valid_until
    THEN "Valid from date must be before valid until date"
    ELSE IF p.promo_type = "percentage" /\ (p.discount_value <= 0 \/ p.discount_value > 100)
         THEN "Percentage discount must be between 0 and 100"
    ELSE IF p.promo_type = "fixed_amount" /\ p.discount_value <= 0
         THEN "Fixed discount amount must be positive"
    ELSE IF p.usage_limit # <<>> /\ p.usage_limit[1] < 0
         THEN "Usage limit cannot be negative"
    ELSE OK

(* Mutant: the last instant of the window is outside it.                   *)
is_valid_before_until(p, current_time) ==
    IF ~p.is_active THEN FALSE
    ELSE IF current_time < p.valid_from \/ current_time >= p.valid_until THEN FALSE
    ELSE IF p.usage_limit # <<>> /\ p.usage_count >= p.usage_limit[1] THEN FALSE
    ELSE TRUE

is_valid(p, current_time) ==
    IF ~p.is_active THEN FALSE
    ELSE IF current_time < p.valid_from \/ current_time > p.valid_until THEN FALSE
    ELSE IF p.usage_limit # <<>> /\ p.usage_count >= p.usage_limit[1] THEN FALSE
    ELSE TRUE

(* Mutant: the minimum purchase is not asked.                              *)
can_apply_to_order_any_amount(p, order_amount, t) == is_valid(p, t)

(* is_valid() is called without a time and reads the clock.                *)
can_apply_to_order(p, order_amount, t) ==
    IF ~is_valid(p, t) THEN FALSE
    ELSE IF p.min_purchase # <<>> /\ order_amount < p.min_purchase[1] THEN FALSE
    ELSE TRUE

(* Mutant: the maximum discount is not applied.                            *)
calculate_discount_uncapped(p, order_amount, t) ==
    IF ~can_apply_to_order(p, order_amount, t) THEN FloatOfInt(0)
    ELSE IF p.promo_type = "percentage"
         THEN float_mul_int(float_div_int(FloatOfInt(p.discount_value), 100), order_amount)
    ELSE IF p.promo_type = "fixed_amount"
         THEN FloatOfInt(IF order_amount < p.discount_value THEN order_amount
                         ELSE p.discount_value)
    ELSE FloatOfInt(0)

(* order_amount * (discount_value / 100) is a float product of a float     *)
(* quotient; the other results are the numbers as given.                   *)
calculate_discount(p, order_amount, t) ==
    IF ~can_apply_to_order(p, order_amount, t) THEN FloatOfInt(0)
    ELSE IF p.promo_type = "percentage"
         THEN LET discount == float_mul_int(
                                  float_div_int(FloatOfInt(p.discount_value), 100),
                                  order_amount)
              IN  IF p.max_discount # <<>>
                  THEN float_min(discount, FloatOfInt(p.max_discount[1]))
                  ELSE discount
    ELSE IF p.promo_type = "fixed_amount"
         THEN FloatOfInt(IF order_amount < p.discount_value THEN order_amount
                         ELSE p.discount_value)
    ELSE FloatOfInt(0)

(* Mutant: the limit is only enforced once it has been passed.             *)
increment_usage_past_limit(p) ==
    IF p.usage_limit # <<>> /\ p.usage_count > p.usage_limit[1]
    THEN [err |-> "Promo usage limit exceeded", promo |-> p]
    ELSE [err |-> OK, promo |-> [p EXCEPT !.usage_count = p.usage_count + 1]]

increment_usage(p) ==
    IF p.usage_limit # <<>> /\ p.usage_count >= p.usage_limit[1]
    THEN [err |-> "Promo usage limit exceeded", promo |-> p]
    ELSE [err |-> OK, promo |-> [p EXCEPT !.usage_count = p.usage_count + 1]]

deactivate(p) == [p EXCEPT !.is_active = FALSE]
activate(p) == [p EXCEPT !.is_active = TRUE]

(* ------------------------------ state --------------------------------- *)
Outcome(op, err, reserved, order_id) ==
    [op |-> op, err |-> err, reserved |-> reserved, order_id |-> order_id]

InitUmkms ==
    [m \in {M1, M2} |->
        [owner_id |-> IF m = M1 THEN S1 ELSE S2, status |-> "pending",
         rating_average |-> FloatOfInt(0), rating_count |-> 0]]

InitProducts ==
    [p \in {P1, P2, P3} |->
        [umkm_id |-> IF p = P3 THEN M2 ELSE M1,
         name |-> p,
         price |-> CASE p = P1 -> Price1 [] p = P2 -> Price2 [] OTHER -> Price3,
         stock_quantity |-> IF p = P2 THEN Unlimited ELSE InStock(MaxStock),
         is_available |-> TRUE]]

Trace(wrote, outcome) == IF wrote THEN outcome ELSE last

Init ==
    /\ umkms = InitUmkms
    /\ products = InitProducts
    /\ orders = <<>>
    /\ now = 1
    /\ last = Outcome("init", OK, 0, NoOrder)
    /\ reviews = <<>>
    /\ promos = <<>>
    /\ reqs = <<>>

(* ------------------------------ actions ------------------------------- *)
CreateOrder(req) ==
    /\ LET r == create_order(umkms, products, orders, now, req)
       IN  /\ r.err = OK => Cardinality(DOMAIN orders) < MaxOrders
           /\ products' = r.products
           /\ orders' = r.orders
           /\ last' = Trace(r.products # products \/ r.orders # orders,
                            Outcome("create_order", r.err, r.reserved, r.order_id))
    /\ UNCHANGED <<umkms, now, reqs, reviews, promos>>

ConfirmOrder(order_id, seller_id) ==
    /\ LET r == confirm_order(umkms, orders, order_id, seller_id)
       IN  /\ orders' = r.orders
           /\ last' = Trace(r.orders # orders, Outcome("confirm_order", r.err, 0, order_id))
    /\ UNCHANGED <<umkms, products, now, reqs, reviews, promos>>

UpdateOrderStatus(order_id, seller_id, new_status) ==
    /\ LET r == update_order_status(umkms, orders, order_id, seller_id, new_status)
       IN  /\ orders' = r.orders
           /\ last' = Trace(r.orders # orders, Outcome("update_order_status", r.err, 0, order_id))
    /\ UNCHANGED <<umkms, products, now, reqs, reviews, promos>>

CancelOrder(order_id, user_id, reason) ==
    /\ LET r == cancel_order(umkms, products, orders, now, order_id, user_id, reason)
       IN  /\ products' = r.products
           /\ orders' = r.orders
           /\ last' = Trace(r.products # products \/ r.orders # orders, Outcome("cancel_order", r.err, 0, order_id))
    /\ UNCHANGED <<umkms, now, reqs, reviews, promos>>

UpdateProductStock(product_id, seller_id, new_stock) ==
    /\ LET r == update_product_stock(umkms, products, product_id, seller_id, new_stock)
       IN  /\ products' = r.products
           /\ last' = Trace(r.err = OK, Outcome("update_product_stock", r.err, 0, NoOrder))
    /\ UNCHANGED <<umkms, orders, now, reqs, reviews, promos>>

ToggleProductAvailability(product_id, seller_id, available) ==
    /\ LET r == toggle_product_availability(umkms, products, product_id, seller_id, available)
       IN  /\ products' = r.products
           /\ last' = Trace(r.err = OK, Outcome("toggle_product_availability", r.err, 0, NoOrder))
    /\ UNCHANGED <<umkms, orders, now, reqs, reviews, promos>>

ApproveUmkm(umkm_id, admin_id) ==
    /\ LET r == approve_umkm(umkms, umkm_id, admin_id)
       IN  /\ umkms' = r.umkms
           /\ last' = Trace(r.err = OK, Outcome("approve_umkm", r.err, 0, NoOrder))
    /\ UNCHANGED <<products, orders, now, reqs, reviews, promos>>

SuspendUmkm(umkm_id, admin_id) ==
    /\ LET r == suspend_umkm(umkms, umkm_id, admin_id)
       IN  /\ umkms' = r.umkms
           /\ last' = Trace(r.err = OK, Outcome("suspend_umkm", r.err, 0, NoOrder))
    /\ UNCHANGED <<products, orders, now, reqs, reviews, promos>>

ReactivateUmkm(umkm_id) ==
    /\ umkm_id \in DOMAIN umkms
    /\ LET r == reactivate(umkms[umkm_id])
       IN  /\ umkms' = IF r.err = OK THEN save(umkms, umkm_id, r.umkm) ELSE umkms
           /\ last' = Trace(r.err = OK, Outcome("reactivate", r.err, 0, NoOrder))
    /\ UNCHANGED <<products, orders, now, reqs, reviews, promos>>

CloseUmkm(umkm_id) ==
    /\ umkm_id \in DOMAIN umkms
    /\ LET r == close(umkms[umkm_id])
       IN  /\ umkms' = save(umkms, umkm_id, r.umkm)
           /\ last' = Trace(r.err = OK, Outcome("close", r.err, 0, NoOrder))
    /\ UNCHANGED <<products, orders, now, reqs, reviews, promos>>

PriceInputs == {0, Price3}
NameInputs == {<<>>, <<"x">>, <<"nasi goreng">>}

(* The requests of create_product: by the owner of merchant m1 and by      *)
(* another seller, for m1 and for a merchant that is not stored, with a    *)
(* name, description, price and stock that are well formed or not.         *)
ProductRequest(seller_id, umkm_id, name, has_description, price, stock_quantity) ==
    [seller_id |-> seller_id, umkm_id |-> umkm_id, name |-> name,
     has_description |-> has_description, price |-> price,
     stock_quantity |-> stock_quantity]
ProductRequests ==
    {ProductRequest(u, m, P5, TRUE, Price1, InStock(1)) : u \in SellerInputs, m \in UmkmInputs}
    \cup {ProductRequest(S1, M1, "x", TRUE, Price1, InStock(1)),
          ProductRequest(S1, M1, P5, FALSE, Price1, InStock(1)),
          ProductRequest(S1, M1, P5, TRUE, 0, InStock(1)),
          ProductRequest(S1, M1, P5, TRUE, Price1, InStock(0 - 1))}
CreatedProductInputs == {P4, P5}
ManagedProductInputs == SellerProductInputs \cup {P5}

CreateProduct(req) ==
    /\ next_product_id(products, orders) # <<>>
    /\ LET r == create_product(umkms, products, next_product_id(products, orders)[1], req)
       IN  /\ products' = r.products
           /\ last' = Trace(r.err = OK, Outcome("create_product", r.err, 0, NoOrder))
    /\ UNCHANGED <<umkms, orders, now, reqs, reviews, promos>>

UpdateProduct(product_id, seller_id, name) ==
    /\ LET r == update_product(umkms, products, product_id, seller_id, name)
       IN  /\ products' = r.products
           /\ last' = Trace(r.err = OK, Outcome("update_product", r.err, 0, NoOrder))
    /\ UNCHANGED <<umkms, orders, now, reqs, reviews, promos>>

(* Mutant: the new price is carried into the lines of the stored orders.   *)
UpdateProductPrice_reprices_lines(product_id, seller_id, new_price) ==
    /\ LET r == update_product_price(umkms, products, product_id, seller_id, new_price)
           repriced(items) ==
               [i \in 1..Len(items) |->
                   IF items[i].product_id = product_id
                   THEN [items[i] EXCEPT !.unit_price = new_price] ELSE items[i]]
       IN  /\ products' = r.products
           /\ orders' = IF r.err # OK THEN orders
                         ELSE [o \in DOMAIN orders |->
                                 [orders[o] EXCEPT !.items = repriced(orders[o].items)]]
           /\ last' = Trace(r.err = OK, Outcome("update_product_price", r.err, 0, NoOrder))
    /\ UNCHANGED <<umkms, now, reqs, reviews, promos>>

UpdateProductPrice(product_id, seller_id, new_price) ==
    /\ LET r == update_product_price(umkms, products, product_id, seller_id, new_price)
       IN  /\ products' = r.products
           /\ last' = Trace(r.err = OK, Outcome("update_product_price", r.err, 0, NoOrder))
    /\ UNCHANGED <<umkms, orders, now, reqs, reviews, promos>>

DeleteProduct(product_id, seller_id) ==
    /\ LET r == delete_product(umkms, products, product_id, seller_id)
       IN  /\ products' = r.products
           /\ last' = Trace(r.err = OK, Outcome("delete_product", r.err, 0, NoOrder))
    /\ UNCHANGED <<umkms, orders, now, reqs, reviews, promos>>

Tick ==
    /\ now < MaxTime
    /\ now' = now + 1
    /\ UNCHANGED <<umkms, products, orders, last, reqs, reviews, promos>>

Next ==
    \/ \E req \in Requests : CreateOrder(req)
    \/ \E o \in OrderIds, u \in ActingUsers : ConfirmOrder(o, u)
    \/ \E o \in OrderIds, u \in ActingUsers, st \in StatusInputs : UpdateOrderStatus(o, u, st)
    \/ \E o \in OrderIds, u \in ActingUsers, r \in ReasonInputs : CancelOrder(o, u, r)
    \/ \E p \in SellerProductInputs, u \in SellerInputs, n \in StockInputs :
          UpdateProductStock(p, u, n)
    \/ \E p \in SellerProductInputs, u \in SellerInputs, a \in BOOLEAN :
          ToggleProductAvailability(p, u, a)
    \/ \E req \in ProductRequests : CreateProduct(req)
    \/ \E p \in CreatedProductInputs, u \in SellerInputs, n \in NameInputs :
          UpdateProduct(p, u, n)
    \/ \E p \in CreatedProductInputs, u \in SellerInputs, n \in PriceInputs :
          UpdateProductPrice(p, u, n)
    \/ \E p \in ManagedProductInputs, u \in SellerInputs : DeleteProduct(p, u)
    \/ \E m \in UmkmInputs, a \in {A1, S1} : ApproveUmkm(m, a)
    \/ \E m \in UmkmInputs, a \in {A1, S1} : SuspendUmkm(m, a)
    \/ \E m \in UmkmInputs : ReactivateUmkm(m)
    \/ \E m \in UmkmInputs : CloseUmkm(m)
    \/ Tick

Spec == Init /\ [][Next]_vars

(* ---------------------------------------------------------------------- *)
(* SpecConc: two create_order requests against the Active merchant, run    *)
(* one awaited store call per step (find_by_id of the merchant, then per   *)
(* line find_by_id and save of the product, then save of the order), with  *)
(* the steps of the two requests interleaved in every order.  Each request *)
(* works on the copy find_by_id handed out until it saves it.              *)
(* ---------------------------------------------------------------------- *)
ReqIds == {1, 2}
ConcLineInputs == {Line(P1, q) : q \in 1..MaxQty} \cup {Line(P2, 1)}
ConcItemsInputs == SeqsUpTo(ConcLineInputs, MaxLines) \ {<<>>}
ConcRequests ==
    [buyer_id : {B1}, umkm_id : {M1}, items : ConcItemsInputs, pickup_time : {NoPickup}]

Started(req) ==
    [pc |-> "fetch_umkm", req |-> req, i |-> 1, items |-> <<>>, product |-> <<>>,
     err |-> OK]

InitConc ==
    /\ umkms = [InitUmkms EXCEPT ![M1].status = "active"]
    /\ products = InitProducts
    /\ orders = <<>>
    /\ now = 1
    /\ last = Outcome("init", OK, 0, NoOrder)
    /\ reviews = <<>>
    /\ promos = <<>>
    /\ reqs \in [ReqIds -> {Started(req) : req \in ConcRequests}]

Failed(r, e) == [reqs EXCEPT ![r].pc = "failed", ![r].err = e]

ConcFetchUmkm(r) ==
    /\ reqs[r].pc = "fetch_umkm"
    /\ LET umkm == find_by_id(umkms, reqs[r].req.umkm_id)
       IN  reqs' = IF umkm = <<>> THEN Failed(r, "UMKM not found")
                   ELSE IF ~can_accept_orders(umkm[1])
                   THEN Failed(r, "UMKM is not accepting orders")
                   ELSE [reqs EXCEPT ![r].pc = IF Len(reqs[r].req.items) = 0
                                               THEN "save_order" ELSE "find_product"]
    /\ UNCHANGED <<umkms, products, orders, now, last, reviews, promos>>

ConcFindProduct(r) ==
    /\ reqs[r].pc = "find_product"
    /\ LET step == process_line(products, reqs[r].req.umkm_id, reqs[r].req.items[reqs[r].i])
       IN  reqs' = IF step.err # OK THEN Failed(r, step.err)
                   ELSE [reqs EXCEPT ![r].pc = "save_product",
                                     ![r].items = Append(reqs[r].items, step.item),
                                     ![r].product = <<step.product>>]
    /\ UNCHANGED <<umkms, products, orders, now, last, reviews, promos>>

ConcSaveProduct(r) ==
    /\ reqs[r].pc = "save_product"
    /\ products' = save(products, reqs[r].req.items[reqs[r].i].product_id,
                        reqs[r].product[1])
    /\ reqs' = [reqs EXCEPT ![r].i = reqs[r].i + 1,
                            ![r].product = <<>>,
                            ![r].pc = IF reqs[r].i + 1 > Len(reqs[r].req.items)
                                      THEN "save_order" ELSE "find_product"]
    /\ UNCHANGED <<umkms, orders, now, last, reviews, promos>>

ConcSaveOrder(r) ==
    /\ reqs[r].pc = "save_order"
    /\ LET built == NewOrder(reqs[r].req.buyer_id, reqs[r].req.umkm_id, reqs[r].items,
                             reqs[r].req.pickup_time, now)
       IN  IF built.err # OK
           THEN /\ reqs' = Failed(r, built.err)
                /\ UNCHANGED <<orders, last>>
           ELSE /\ orders' = save(orders, next_order_id(orders), built.order)
                /\ reqs' = [reqs EXCEPT ![r].pc = "done"]
                /\ last' = Outcome("create_order", OK, Len(reqs[r].items),
                                   next_order_id(orders))
    /\ UNCHANGED <<umkms, products, now, reviews, promos>>

NextConc ==
    \/ \E r \in ReqIds : ConcFetchUmkm(r)
    \/ \E r \in ReqIds : ConcFindProduct(r)
    \/ \E r \in ReqIds : ConcSaveProduct(r)
    \/ \E r \in ReqIds : ConcSaveOrder(r)

SpecConc == InitConc /\ [][NextConc]_vars

(* ---------------------------------------------------------------------- *)
(* SpecCatalog: the seller's product edits (name, price, stock,            *)
(* availability) around create_order and cancel_order against the Active   *)
(* merchant, each handler run to its end before the next starts.           *)
(* ---------------------------------------------------------------------- *)
CatalogProductInputs == {P1, P2, P4}

InitCatalog ==
    /\ umkms = [InitUmkms EXCEPT ![M1].status = "active"]
    /\ products = InitProducts
    /\ orders = <<>>
    /\ now = 1
    /\ last = Outcome("init", OK, 0, NoOrder)
    /\ reviews = <<>>
    /\ promos = <<>>
    /\ reqs = <<>>

NextCatalog ==
    \/ \E req \in ConcRequests : CreateOrder(req)
    \/ \E o \in OrderIds, u \in ActingUsers, r \in ReasonInputs : CancelOrder(o, u, r)
    \/ \E p \in SellerProductInputs, u \in SellerInputs, n \in NameInputs :
          UpdateProduct(p, u, n)
    \/ \E p \in SellerProductInputs, u \in SellerInputs, n \in PriceInputs :
          UpdateProductPrice(p, u, n)
    \/ \E p \in SellerProductInputs, u \in SellerInputs, n \in StockInputs :
          UpdateProductStock(p, u, n)
    \/ \E p \in CatalogProductInputs, u \in SellerInputs, a \in BOOLEAN :
          ToggleProductAvailability(p, u, a)

SpecCatalog == InitCatalog /\ [][NextCatalog]_vars

(* ---------------------------------------------------------------------- *)
(* SpecCancel: one cancel_order request run one awaited store call per     *)
(* step: find_by_id of the order, find_by_id of the merchant (with the     *)
(* authorization and the can_be_cancelled check that follow it), then per  *)
(* line find_by_id and save of the product, then save of the order.  The   *)
(* request works on the copies find_by_id handed out.  It starts from the  *)
(* stores a create_order left, with the order driven to some status.       *)
(* ---------------------------------------------------------------------- *)
CancelReqIds == {1}
StatusChain == <<"confirmed", "preparing", "ready", "completed">>

RECURSIVE Advance(_, _, _, _)
Advance(us, os, order_id, n) ==
    IF n = 0 THEN os
    ELSE update_order_status(us, Advance(us, os, order_id, n - 1), order_id, S1,
                             StatusChain[n]).orders

StartedCancel(order_id, user_id, reason) ==
    [pc |-> "fetch_order", order_id |-> order_id, user_id |-> user_id, reason |-> reason,
     order |-> <<>>, i |-> 1, product |-> <<>>, err |-> OK]

InitCancel ==
    /\ umkms = [InitUmkms EXCEPT ![M1].status = "active"]
    /\ now = 1
    /\ last = Outcome("init", OK, 0, NoOrder)
    /\ reviews = <<>>
    /\ promos = <<>>
    /\ \E req \in ConcRequests, n \in 0..Len(StatusChain) :
          LET r == create_order(umkms, InitProducts, <<>>, now, req)
          IN  /\ r.err = OK
              /\ products = r.products
              /\ orders = Advance(umkms, r.orders, r.order_id, n)
    /\ reqs \in [CancelReqIds ->
                    {StartedCancel(1, u, reason) : u \in ActingUsers, reason \in ReasonInputs}]

AfterLine(req) ==
    IF req.i + 1 > Len(req.order[1].items) THEN "save_order" ELSE "find_product"

CancelFetchOrder(r) ==
    /\ reqs[r].pc = "fetch_order"
    /\ LET order == find_by_id(orders, reqs[r].order_id)
       IN  reqs' = IF order = <<>> THEN Failed(r, "Order not found")
                   ELSE [reqs EXCEPT ![r].pc = "fetch_umkm", ![r].order = order]
    /\ UNCHANGED <<umkms, products, orders, now, last, reviews, promos>>

(* Mutant: the order is cancelled and saved before the lines are restored.  *)
CancelFetchUmkm_saves_order_first(r) ==
    /\ reqs[r].pc = "fetch_umkm"
    /\ LET order == reqs[r].order[1]
           is_buyer == order.buyer_id = reqs[r].user_id
           is_seller == owns_umkm(umkms, order.umkm_id, reqs[r].user_id)
           refused == ~(is_buyer \/ is_seller) \/ ~can_be_cancelled(order)
       IN  /\ reqs' = IF ~(is_buyer \/ is_seller)
                      THEN Failed(r, "Unauthorized: You cannot cancel this order")
                      ELSE IF ~can_be_cancelled(order)
                      THEN Failed(r, "Order cannot be cancelled")
                      ELSE [reqs EXCEPT ![r].pc = "find_product"]
           /\ orders' = IF refused THEN orders
                         ELSE save(orders, reqs[r].order_id,
                                   [order EXCEPT !.status = "cancelled", !.cancelled_at = now,
                                                 !.cancellation_reason = reqs[r].reason])
    /\ UNCHANGED <<umkms, products, now, last, reviews, promos>>

CancelFetchUmkm(r) ==
    /\ reqs[r].pc = "fetch_umkm"
    /\ LET order == reqs[r].order[1]
           is_buyer == order.buyer_id = reqs[r].user_id
           is_seller == owns_umkm(umkms, order.umkm_id, reqs[r].user_id)
       IN  reqs' = IF ~(is_buyer \/ is_seller)
                   THEN Failed(r, "Unauthorized: You cannot cancel this order")
                   ELSE IF ~can_be_cancelled(order)
                   THEN Failed(r, "Order cannot be cancelled")
                   ELSE [reqs EXCEPT ![r].pc = IF Len(order.items) = 0 THEN "save_order"
                                               ELSE "find_product"]
    /\ UNCHANGED <<umkms, products, orders, now, last, reviews, promos>>

CancelFindProduct(r) ==
    /\ reqs[r].pc = "find_product"
    /\ LET item == reqs[r].order[1].items[reqs[r].i]
           found == find_by_id(products, item.product_id)
       IN  reqs' = IF found = <<>>
                   THEN [reqs EXCEPT ![r].pc = AfterLine(reqs[r]), ![r].i = @ + 1]
                   ELSE LET grown == increase_stock(found[1], item.quantity)
                        IN  IF grown.err # OK THEN Failed(r, grown.err)
                            ELSE [reqs EXCEPT ![r].pc = "save_product",
                                              ![r].product = <<grown.product>>]
    /\ UNCHANGED <<umkms, products, orders, now, last, reviews, promos>>

CancelSaveProduct(r) ==
    /\ reqs[r].pc = "save_product"
    /\ products' = save(products, reqs[r].order[1].items[reqs[r].i].product_id,
                        reqs[r].product[1])
    /\ reqs' = [reqs EXCEPT ![r].pc = AfterLine(reqs[r]), ![r].i = @ + 1,
                            ![r].product = <<>>]
    /\ UNCHANGED <<umkms, orders, now, last, reviews, promos>>

CancelSaveOrder(r) ==
    /\ reqs[r].pc = "save_order"
    /\ LET done == cancel(reqs[r].order[1], reqs[r].reason, now)
       IN  IF done.err # OK
           THEN reqs' = Failed(r, done.err) /\ orders' = orders
           ELSE /\ orders' = save(orders, reqs[r].order_id, done.order)
                /\ reqs' = [reqs EXCEPT ![r].pc = "done", ![r].order = <<done.order>>]
    /\ UNCHANGED <<umkms, products, now, last, reviews, promos>>

NextCancel ==
    \/ \E r \in CancelReqIds : CancelFetchOrder(r)
    \/ \E r \in CancelReqIds : CancelFetchUmkm(r)
    \/ \E r \in CancelReqIds : CancelFindProduct(r)
    \/ \E r \in CancelReqIds : CancelSaveProduct(r)
    \/ \E r \in CancelReqIds : CancelSaveOrder(r)

SpecCancel == InitCancel /\ [][NextCancel]_vars

(* ---------------------------------------------------------------------- *)
(* SpecRating: reviews of the merchants, after one order of buyer b1 at    *)
(* merchant m1.  The scores are the two ends and the middle of the scale   *)
(* and the two values just outside it; the reviews with the top score are  *)
(* the ones linked to the order.                                           *)
(* ---------------------------------------------------------------------- *)
ScoreInputs == {0, 1, 3, 5, 6}
ReviewRequest(user_id, umkm_id, rating, comment_length, order_id) ==
    [user_id |-> user_id, umkm_id |-> umkm_id, rating |-> rating,
     comment_length |-> comment_length, order_id |-> order_id]
ReviewRequests ==
    {ReviewRequest(B1, M1, rating, MinCommentLength, NoOrder) : rating \in ScoreInputs \ {5}}
    \cup {ReviewRequest(B1, M1, 5, MinCommentLength, 1),
          ReviewRequest(S1, M1, 5, MinCommentLength, 1),
          ReviewRequest(B1, M2, 5, MinCommentLength, 1),
          ReviewRequest(B1, M1, 5, MinCommentLength, 2),
          ReviewRequest(B1, M3, 5, MinCommentLength, NoOrder),
          ReviewRequest(B1, M1, 5, MinCommentLength - 1, NoOrder),
          ReviewRequest(B1, M1, 5, MaxCommentLength + 1, NoOrder)}

InitRating ==
    /\ umkms = [InitUmkms EXCEPT ![M1].status = "active"]
    /\ now = 1
    /\ last = Outcome("init", OK, 0, NoOrder)
    /\ LET r == create_order(umkms, InitProducts, <<>>, now,
                             [buyer_id |-> B1, umkm_id |-> M1,
                              items |-> <<Line(P1, 1)>>, pickup_time |-> NoPickup])
       IN  products = r.products /\ orders = r.orders
    /\ reqs = <<>>
    /\ reviews = <<>>
    /\ promos = <<>>

CreateReview(req) ==
    /\ LET r == create_review(umkms, orders, reviews, req)
       IN  /\ r.err = OK => Cardinality(DOMAIN reviews) < MaxReviews
           /\ umkms' = r.umkms
           /\ reviews' = r.reviews
           /\ last' = Trace(r.err = OK, Outcome("create_review", r.err, 0, req.order_id))
    /\ UNCHANGED <<products, orders, now, reqs, promos>>

NextRating == \E req \in ReviewRequests : CreateReview(req)

SpecRating == InitRating /\ [][NextRating]_vars

(* ---------------------------------------------------------------------- *)
(* SpecPromo: one stored promo, used, switched off and on, and asked for   *)
(* the discount on an order amount, while the clock runs past the windows. *)
(* ---------------------------------------------------------------------- *)
PromoId == 1
WindowInputs == {<<0, 1>>, <<1, MaxTime>>, <<MaxTime, MaxTime + 1>>, <<MaxTime, MaxTime>>}
LimitInputs == {<<>>, <<0 - 1>>, <<0>>, <<1>>}
MinPurchaseInputs == {<<>>, <<100>>}
AmountInputs == {0, 35, 100, 8000, 50000}
PromoInputs ==
    {Promo("percentage", d, w[1], w[2], mp, md, ul) :
        d \in {0, 1, 10, 100, 101}, w \in WindowInputs, mp \in MinPurchaseInputs,
        md \in {<<>>, <<2000>>, <<0 - 5>>}, ul \in LimitInputs}
    \cup {Promo("fixed_amount", d, w[1], w[2], mp, <<>>, ul) :
        d \in {0, 10000}, w \in WindowInputs, mp \in MinPurchaseInputs, ul \in LimitInputs}
    \cup {Promo("buy_one_get_one", 1, w[1], w[2], <<>>, <<>>, ul) :
        w \in WindowInputs, ul \in LimitInputs}

PromoOutcome(op, err, order_amount, discount) ==
    [op |-> op, err |-> err, order_amount |-> order_amount, discount |-> discount]

InitPromo ==
    /\ umkms = InitUmkms
    /\ products = InitProducts
    /\ orders = <<>>
    /\ now = 1
    /\ last = PromoOutcome("init", OK, 0, FloatOfInt(0))
    /\ reqs = <<>>
    /\ reviews = <<>>
    /\ \E p \in PromoInputs : validate_promo(p) = OK /\ promos = save(<<>>, PromoId, p)

IncrementUsage(id) ==
    /\ id \in DOMAIN promos
    /\ LET r == increment_usage(promos[id])
       IN  /\ r.err = OK => promos[id].usage_count < MaxUses
           /\ promos' = IF r.err = OK THEN save(promos, id, r.promo) ELSE promos
           /\ last' = Trace(r.err = OK,
                            PromoOutcome("increment_usage", r.err, 0, FloatOfInt(0)))
    /\ UNCHANGED <<umkms, products, orders, now, reqs, reviews>>

Deactivate(id) ==
    /\ id \in DOMAIN promos
    /\ promos' = save(promos, id, deactivate(promos[id]))
    /\ last' = PromoOutcome("deactivate", OK, 0, FloatOfInt(0))
    /\ UNCHANGED <<umkms, products, orders, now, reqs, reviews>>

Activate(id) ==
    /\ id \in DOMAIN promos
    /\ promos' = save(promos, id, activate(promos[id]))
    /\ last' = PromoOutcome("activate", OK, 0, FloatOfInt(0))
    /\ UNCHANGED <<umkms, products, orders, now, reqs, reviews>>

CalculateDiscount(id, order_amount) ==
    /\ id \in DOMAIN promos
    /\ last' = PromoOutcome("calculate_discount", OK, order_amount,
                            calculate_discount(promos[id], order_amount, now))
    /\ UNCHANGED <<umkms, products, orders, now, reqs, reviews, promos>>

NextPromo ==
    \/ IncrementUsage(PromoId)
    \/ Deactivate(PromoId)
    \/ Activate(PromoId)
    \/ \E a \in AmountInputs : CalculateDiscount(PromoId, a)
    \/ Tick

SpecPromo == InitPromo /\ [][NextPromo]_vars

(* ---------------------------------------------------------------------- *)
(* SpecLedger: several orders against the Active merchant, placed, driven  *)
(* through their statuses and cancelled, each handler run to its end,      *)
(* while the seller deletes products.  No stock is edited by hand.         *)
(* ---------------------------------------------------------------------- *)
LedgerOrders == MaxOrders + 1
LedgerOrderIds == 1..LedgerOrders
LedgerProductInputs == {P1, P2}

InitLedger ==
    /\ umkms = [InitUmkms EXCEPT ![M1].status = "active"]
    /\ products = InitProducts
    /\ orders = <<>>
    /\ now = 1
    /\ last = Outcome("init", OK, 0, NoOrder)
    /\ reviews = <<>>
    /\ promos = <<>>
    /\ reqs = <<>>

CreateLedgerOrder(req) ==
    /\ LET r == create_order(umkms, products, orders, now, req)
       IN  /\ r.err = OK => Cardinality(DOMAIN orders) < LedgerOrders
           /\ products' = r.products
           /\ orders' = r.orders
           /\ last' = Trace(r.products # products \/ r.orders # orders,
                            Outcome("create_order", r.err, r.reserved, r.order_id))
    /\ UNCHANGED <<umkms, now, reqs, reviews, promos>>

NextLedger ==
    \/ \E req \in ConcRequests : CreateLedgerOrder(req)
    \/ \E o \in LedgerOrderIds, u \in SellerInputs, st \in StatusInputs :
          UpdateOrderStatus(o, u, st)
    \/ \E o \in LedgerOrderIds, u \in ActingUsers, r \in ReasonInputs : CancelOrder(o, u, r)
    \/ \E p \in LedgerProductInputs, u \in SellerInputs : DeleteProduct(p, u)

SpecLedger == InitLedger /\ [][NextLedger]_vars

(* ---------------------------------------------------------------------- *)
(* SpecCancelTwice: two cancel_order requests for the same stored order,   *)
(* run as in SpecCancel one awaited store call per step, the steps of the  *)
(* two requests interleaved in every order.                                *)
(* ---------------------------------------------------------------------- *)
CancelTwiceReqIds == {1, 2}

InitCancelTwice ==
    /\ umkms = [InitUmkms EXCEPT ![M1].status = "active"]
    /\ now = 1
    /\ last = Outcome("init", OK, 0, NoOrder)
    /\ reviews = <<>>
    /\ promos = <<>>
    /\ \E req \in ConcRequests, n \in 0..Len(StatusChain) :
          LET r == create_order(umkms, InitProducts, <<>>, now, req)
          IN  /\ r.err = OK
              /\ products = r.products
              /\ orders = Advance(umkms, r.orders, r.order_id, n)
    /\ reqs \in [CancelTwiceReqIds ->
                    {StartedCancel(1, u, reason) : u \in ActingUsers, reason \in ReasonInputs}]

NextCancelTwice ==
    \/ \E r \in CancelTwiceReqIds : CancelFetchOrder(r)
    \/ \E r \in CancelTwiceReqIds : CancelFetchUmkm(r)
    \/ \E r \in CancelTwiceReqIds : CancelFindProduct(r)
    \/ \E r \in CancelTwiceReqIds : CancelSaveProduct(r)
    \/ \E r \in CancelTwiceReqIds : CancelSaveOrder(r)

SpecCancelTwice == InitCancelTwice /\ [][NextCancelTwice]_vars

(* ---------------------------------------------------------------------- *)
(* SpecReviewEdit: reviews of the merchants are created as in SpecRating   *)
(* and edited by update_review: by their author or by another user, with   *)
(* scores inside and outside the scale and comments long enough or too     *)
(* short, for stored reviews and for one id that is not stored.            *)
(* ---------------------------------------------------------------------- *)
EditReviews == 3
EditReviewIds == 1..(EditReviews + 1)
EditAuthors == {B1, S1}
EditCommentLengths == {MinCommentLength - 1, MinCommentLength}

CreateEditableReview(req) ==
    /\ LET r == create_review(umkms, orders, reviews, req)
       IN  /\ r.err = OK => Cardinality(DOMAIN reviews) < EditReviews
           /\ umkms' = r.umkms
           /\ reviews' = r.reviews
           /\ last' = Trace(r.err = OK, Outcome("create_review", r.err, 0, req.order_id))
    /\ UNCHANGED <<products, orders, now, reqs, promos>>

UpdateReview(review_id, user_id, new_rating, new_comment_length) ==
    /\ LET r == update_review(reviews, review_id, user_id, new_rating, new_comment_length)
       IN  /\ reviews' = r.reviews
           /\ last' = Trace(r.err = OK, Outcome("update_review", r.err, 0, NoOrder))
    /\ UNCHANGED <<umkms, products, orders, now, reqs, promos>>

NextReviewEdit ==
    \/ \E req \in ReviewRequests : CreateEditableReview(req)
    \/ \E review_id \in EditReviewIds, user_id \in EditAuthors,
          new_rating \in ScoreInputs, new_comment_length \in EditCommentLengths :
          UpdateReview(review_id, user_id, new_rating, new_comment_length)

SpecReviewEdit == InitRating /\ [][NextReviewEdit]_vars

(* ---------------------------------------------------------------------- *)
(* SpecRegister: merchants are registered into an empty store, one call    *)
(* after the other, by the sellers, the deactivated seller, the buyer, the *)
(* admin and an id of no account, with well-formed and ill-formed data,    *)
(* and moderated: approved and suspended by the admin or a seller,         *)
(* reactivated and closed.                                                 *)
(* ---------------------------------------------------------------------- *)
OwnerInputs == {B1, S1, S2, S3, S4, A1, U0}
RegisterRequest(owner_id, name_length, description_length, has_location, has_phone) ==
    [owner_id |-> owner_id, name_length |-> name_length,
     description_length |-> description_length,
     has_location |-> has_location, has_phone |-> has_phone]
RegisterRequests ==
    {RegisterRequest(o, MinNameLength, MinDescriptionLength, TRUE, TRUE) : o \in OwnerInputs}
    \cup {RegisterRequest(S1, MinNameLength - 1, MinDescriptionLength, TRUE, TRUE),
          RegisterRequest(S1, MinNameLength, MinDescriptionLength - 1, TRUE, TRUE),
          RegisterRequest(S1, MinNameLength, MinDescriptionLength, FALSE, TRUE),
          RegisterRequest(S1, MinNameLength, MinDescriptionLength, TRUE, FALSE)}
RegisteredIds == {M1, M2, M3}

InitRegister ==
    /\ umkms = <<>>
    /\ products = <<>>
    /\ orders = <<>>
    /\ now = 1
    /\ last = Outcome("init", OK, 0, NoOrder)
    /\ reqs = <<>>
    /\ reviews = <<>>
    /\ promos = <<>>

RegisterUmkm(req) ==
    /\ LET r == register_umkm(umkms, req)
       IN  /\ r.err = OK => Cardinality(DOMAIN umkms) < Len(MerchantIds)
           /\ umkms' = r.umkms
           /\ last' = Trace(r.err = OK, Outcome("register_umkm", r.err, 0, NoOrder))
    /\ UNCHANGED <<products, orders, now, reqs, reviews, promos>>

NextRegister ==
    \/ \E req \in RegisterRequests : RegisterUmkm(req)
    \/ \E m \in RegisteredIds, a \in {A1, S1} : ApproveUmkm(m, a)
    \/ \E m \in RegisteredIds, a \in {A1, S1} : SuspendUmkm(m, a)
    \/ \E m \in RegisteredIds : ReactivateUmkm(m)
    \/ \E m \in RegisteredIds : CloseUmkm(m)

SpecRegister == InitRegister /\ [][NextRegister]_vars

(* ====================================================================== *)
(* Claims                                                                 *)
(* ====================================================================== *)
Statuses == {"placed", "confirmed", "preparing", "ready", "completed", "cancelled"}
Triggers == {"confirm", "markPreparing", "markReady", "complete", "cancel"}
Terminal == {"completed", "cancelled"}

(* The transition table of the order state machine: <<current, trigger>>   *)
(* pairs that are accepted, with the status each leads to.                 *)
TableNext(s, t) ==
    CASE s = "placed" /\ t = "confirm" -> "confirmed"
      [] s = "confirmed" /\ t = "markPreparing" -> "preparing"
      [] s = "preparing" /\ t = "markReady" -> "ready"
      [] s = "ready" /\ t = "complete" -> "completed"
      [] s \in {"placed", "confirmed", "preparing", "ready"} /\ t = "cancel" -> "cancelled"
      [] OTHER -> "rejected"

InvalidTransition ==
    {"Cannot confirm order in status", "Only confirmed orders can be marked as preparing",
     "Only preparing orders can be marked as ready", "Only ready orders can be completed",
     "Cannot cancel order in status"}

Fire(t, o) ==
    CASE t = "confirm" -> confirm(o)
      [] t = "markPreparing" -> mark_preparing(o)
      [] t = "markReady" -> mark_ready(o)
      [] t = "complete" -> complete(o)
      [] OTHER -> cancel(o, "changed mind", now)

(* C1: for every stored order (every status is reachable) and every        *)
(* trigger, the trigger is accepted exactly when the transition table has  *)
(* the pair, and then leads to the table's status; every other pair is     *)
(* rejected with an InvalidTransition error and leaves the order as it was.*)
C1_TransitionTable ==
    \A oid \in DOMAIN orders : \A t \in Triggers :
        LET o == orders[oid]
            r == Fire(t, o)
        IN  IF TableNext(o.status, t) # "rejected"
            THEN r.err = OK /\ r.order.status = TableNext(o.status, t)
            ELSE r.err \in InvalidTransition /\ r.order = o

(* An order driven to Completed through update_order_status: every trigger *)
(* was accepted along the chain and every trigger is now rejected.         *)
C1_Witness ==
    /\ last.op = "update_order_status" /\ last.err = OK
    /\ last.order_id \in DOMAIN orders
    /\ orders[last.order_id].status = "completed"
    /\ \A t \in Triggers : Fire(t, orders[last.order_id]).err \in InvalidTransition

Forward ==
    {<<"placed", "confirmed">>, <<"confirmed", "preparing">>,
     <<"preparing", "ready">>, <<"ready", "completed">>}

StatusStep(old, new) ==
    \/ new = old
    \/ <<old, new>> \in Forward
    \/ new = "cancelled" /\ old \notin Terminal

(* C2: in every step, a stored order stays stored and its status either    *)
(* stays, moves to the next status of Placed, Confirmed, Preparing, Ready, *)
(* Completed, or becomes Cancelled from a status that is neither Completed *)
(* nor Cancelled (so a terminal status never changes); an order that       *)
(* enters the store enters it as Placed.                                   *)
C2_StatusSequence ==
    [][/\ \A oid \in DOMAIN orders :
             /\ oid \in DOMAIN orders'
             /\ StatusStep(orders[oid].status, orders'[oid].status)
       /\ \A oid \in DOMAIN orders' \ DOMAIN orders : orders'[oid].status = "placed"]_vars

(* An order that cancel_order has moved to Cancelled.                      *)
C2_Witness ==
    /\ last.op = "cancel_order" /\ last.err = OK
    /\ orders[last.order_id].status = "cancelled"

RECURSIVE Requested(_, _, _)
Requested(lines, n, p) ==
    IF n = 0 THEN 0
    ELSE (IF lines[n].product_id = p THEN lines[n].quantity ELSE 0) + Requested(lines, n - 1, p)

Finite(p) == p.stock_quantity # Unlimited

(* C3: a create_order that succeeds reduces the stored stock of every      *)
(* finite-stock product by the quantity the request names for it (nothing  *)
(* for a product the request does not name), changes no other field of any *)
(* product, and stores exactly one new order, in status Placed, leaving    *)
(* the orders already stored as they were.                                 *)
C3_CreateReducesStock ==
    \A req \in Requests :
        LET r == create_order(umkms, products, orders, now, req)
        IN  r.err = OK =>
              /\ can_accept_orders(umkms[req.umkm_id])
              /\ DOMAIN r.products = DOMAIN products
              /\ \A p \in DOMAIN products :
                    IF Finite(products[p])
                    THEN r.products[p] =
                           [products[p] EXCEPT !.stock_quantity =
                              InStock(products[p].stock_quantity[1]
                                        - Requested(req.items, Len(req.items), p))]
                    ELSE r.products[p] = products[p]
              /\ r.order_id \notin DOMAIN orders
              /\ DOMAIN r.orders = DOMAIN orders \cup {r.order_id}
              /\ r.orders[r.order_id].status = "placed"
              /\ \A oid \in DOMAIN orders : r.orders[oid] = orders[oid]

(* A stored two-line order of both products of the merchant that took the  *)
(* whole finite stock of the first and left the other merchant's alone.    *)
C3_Witness ==
    /\ last.op = "create_order" /\ last.err = OK
    /\ Len(orders[last.order_id].items) = 2
    /\ orders[last.order_id].items[1].product_id = P1
    /\ orders[last.order_id].items[1].quantity = MaxStock
    /\ orders[last.order_id].items[2].product_id = P2
    /\ products[P1].stock_quantity = InStock(0)
    /\ products[P3].stock_quantity = InStock(MaxStock)

Authorized(o, user_id) == o.buyer_id = user_id \/ owns_umkm(umkms, o.umkm_id, user_id)

StockOf(ps) == [p \in DOMAIN ps |-> ps[p].stock_quantity]

(* C4: from every reachable state, a create_order that succeeds, followed  *)
(* at once by a cancel_order of the new order that succeeds, leaves the    *)
(* stock of every product equal to its value before the create_order; the  *)
(* buyer and the merchant owner do succeed in cancelling it.               *)
C4_ReserveRestoreRoundTrip ==
    \A req \in Requests :
        LET r == create_order(umkms, products, orders, now, req)
        IN  r.err = OK =>
              \A u \in ActingUsers :
                 LET c == cancel_order(umkms, r.products, r.orders, now,
                                       r.order_id, u, "changed mind")
                 IN  /\ u \in {req.buyer_id, S1} => c.err = OK
                     /\ c.err = OK =>
                          /\ StockOf(c.products) = StockOf(products)
                          /\ c.orders[r.order_id].status = "cancelled"

(* A cancelled order that had taken finite stock, with the stock back at   *)
(* its initial value.                                                      *)
C4_Witness ==
    /\ last.op = "cancel_order" /\ last.err = OK
    /\ orders[last.order_id].status = "cancelled"
    /\ \E i \in 1..Len(orders[last.order_id].items) :
          /\ orders[last.order_id].items[i].product_id = P1
          /\ orders[last.order_id].items[i].quantity = MaxStock
    /\ products[P1].stock_quantity = InStock(MaxStock)

(* C5: the stored stock of every finite-stock product is never negative.   *)
C5_StockNeverNegative ==
    \A p \in DOMAIN products : Finite(products[p]) => products[p].stock_quantity[1] >= 0

(* A create_order has just taken the last unit of a finite stock.          *)
C5_Witness ==
    /\ last.op = "create_order"
    /\ last.reserved >= 1
    /\ products[P1].stock_quantity = InStock(0)

(* C6: cancel_order by the buyer or the merchant owner on an order that is *)
(* Completed or Cancelled fails and leaves the order store and every       *)
(* product as they were, so a repeated cancel restores no stock again.     *)
C6_CancelTerminalFails ==
    \A oid \in DOMAIN orders : \A u \in ActingUsers :
        (orders[oid].status \in Terminal /\ Authorized(orders[oid], u)) =>
            LET c == cancel_order(umkms, products, orders, now, oid, u, "changed mind")
            IN  /\ c.err = "Order cannot be cancelled"
                /\ c.products = products
                /\ c.orders = orders

(* An order that was cancelled once, its finite stock restored once, on    *)
(* which a second cancel by its buyer is rejected.                         *)
C6_Witness ==
    /\ last.op = "cancel_order" /\ last.err = OK
    /\ orders[last.order_id].status = "cancelled"
    /\ orders[last.order_id].items[1].product_id = P1
    /\ products[P1].stock_quantity = InStock(MaxStock)
    /\ cancel_order(umkms, products, orders, now, last.order_id, B1, "changed mind").err
         = "Order cannot be cancelled"

(* create_order against a merchant that is absent or not Active fails with *)
(* the merchant error, whatever the lines are, and writes nothing.         *)
MerchantGate ==
    \A req \in Requests :
        LET r == create_order(umkms, products, orders, now, req)
        IN  /\ req.umkm_id \notin DOMAIN umkms =>
                 r.err = "UMKM not found" /\ r.products = products /\ r.orders = orders
            /\ (req.umkm_id \in DOMAIN umkms /\ umkms[req.umkm_id].status # "active") =>
                 /\ r.err = "UMKM is not accepting orders"
                 /\ r.products = products /\ r.orders = orders
            /\ r.err = OK => umkms[req.umkm_id].status = "active"

(* Every registered merchant is Pending (stated of the initial state).    *)
StartsPending == \A m \in DOMAIN umkms : umkms[m].status = "pending"

BecomesAccepting(m) ==
    /\ m \in DOMAIN umkms /\ m \in DOMAIN umkms'
    /\ ~can_accept_orders(umkms[m]) /\ can_accept_orders(umkms'[m])

(* C7 as stated: the merchant gate above; every merchant starts Pending;   *)
(* and a merchant that does not accept orders comes to accept them only by *)
(* a successful approve.                                                   *)
C7_OnlyAfterApprove ==
    /\ StartsPending
    /\ []MerchantGate
    /\ [][\A m \in DOMAIN umkms :
             BecomesAccepting(m) => last'.op = "approve_umkm" /\ last'.err = OK]_vars

(* C7, amended: the merchant gate above; every merchant starts Pending;    *)
(* and a merchant that does not accept orders comes to accept them only by *)
(* a successful approve (from Pending) or reactivate.                      *)
C7_MerchantGate ==
    /\ StartsPending
    /\ []MerchantGate
    /\ [][\A m \in DOMAIN umkms :
             BecomesAccepting(m) =>
                /\ last'.err = OK
                /\ \/ last'.op = "approve_umkm" /\ umkms[m].status = "pending"
                   \/ last'.op = "reactivate"]_vars

(* A create_order was accepted after approve made the merchant Active, and *)
(* the merchant, suspended since, now rejects every request.               *)
C7_Witness ==
    /\ last.op = "suspend_umkm" /\ last.err = OK
    /\ umkms[M1].status = "suspended"
    /\ DOMAIN orders # {}
    /\ \A req \in Requests :
          create_order(umkms, products, orders, now, req).err
             \in {"UMKM not found", "UMKM is not accepting orders"}

RECURSIVE LineSum(_, _)
LineSum(items, n) ==
    IF n = 0 THEN 0 ELSE items[n].quantity * items[n].unit_price + LineSum(items, n - 1)

TotalIsLineSum ==
    /\ \A oid \in DOMAIN orders :
          orders[oid].total_amount = LineSum(orders[oid].items, Len(orders[oid].items))
    /\ \A req \in Requests :
          LET r == create_order(umkms, products, orders, now, req)
          IN  r.err = OK =>
                LET o == r.orders[r.order_id]
                IN  /\ Len(o.items) = Len(req.items)
                    /\ \A i \in 1..Len(o.items) :
                          /\ o.items[i].product_id = req.items[i].product_id
                          /\ o.items[i].quantity = req.items[i].quantity
                          /\ o.items[i].unit_price = products[req.items[i].product_id].price
                          /\ o.items[i].product_name = products[req.items[i].product_id].name
                    /\ o.total_amount = LineSum(o.items, Len(o.items))

(* C8: the total of every stored order is the sum over its lines of        *)
(* quantity * unit price, the lines of a new order carry the quantities of *)
(* the request and the prices of the products at that time, and no step    *)
(* changes the total or the lines of a stored order.                       *)
C8_TotalFixed ==
    /\ []TotalIsLineSum
    /\ [][\A oid \in DOMAIN orders :
             /\ orders'[oid].total_amount = orders[oid].total_amount
             /\ orders'[oid].items = orders[oid].items]_vars

(* A two-line order (2 units at Price1, 1 unit at Price2) that went        *)
(* through every status up to Completed with its total still 2*2 + 1*3.    *)
C8_Witness ==
    /\ last.op = "update_order_status" /\ last.err = OK
    /\ orders[last.order_id].status = "completed"
    /\ Len(orders[last.order_id].items) = 2
    /\ orders[last.order_id].items[1].quantity = 2
    /\ orders[last.order_id].total_amount = 2 * Price1 + 1 * Price2

(* C9: a create_order that fails stores no order and leaves exactly the    *)
(* decrements of the lines it had processed before the failure: the stock  *)
(* of every finite-stock product is lower by the quantities of those       *)
(* lines, with no compensation.                                            *)
C9_PartialReservationStays ==
    \A req \in Requests :
        LET r == create_order(umkms, products, orders, now, req)
        IN  r.err # OK =>
              /\ r.orders = orders
              /\ r.reserved <= Len(req.items)
              /\ \A p \in DOMAIN products :
                    IF Finite(products[p])
                    THEN r.products[p] =
                           [products[p] EXCEPT !.stock_quantity =
                              InStock(products[p].stock_quantity[1]
                                        - Requested(req.items, r.reserved, p))]
                    ELSE r.products[p] = products[p]

(* A create_order failed on its second line after the first line had taken *)
(* finite stock: the stock is gone and no order is stored.                 *)
C9_Witness ==
    /\ last.op = "create_order"
    /\ last.err \in {"Product not found", "Product does not belong to this UMKM",
                     "Product is not available in requested quantity",
                     "Pickup time must be in the future"}
    /\ last.reserved >= 1
    /\ last.order_id = NoOrder
    /\ orders = <<>>
    /\ products[P1].stock_quantity = InStock(0)

(* Quantity of product p in the lines a request has already written back  *)
(* to the product store.                                                   *)
Written(r, p) == Requested(reqs[r].req.items, reqs[r].i - 1, p)

(* C10: under the interleaving of SpecConc nothing but the per-line check  *)
(* against the copy read protects the stock: the stock of a finite-stock   *)
(* product is never negative, never above its initial value, below it once *)
(* a line naming it was written, and never below the initial value minus   *)
(* the quantities written; every request that was not rejected stores its  *)
(* order.  The decrement of one request can be lost (C10_Witness): the     *)
(* stock need not equal the initial value minus the quantities written.    *)
C10_InterleavedStock ==
    /\ \A p \in {P1, P3} :
          LET w == Written(1, p) + Written(2, p)
              s == products[p].stock_quantity[1]
          IN  /\ s >= 0
              /\ s >= MaxStock - w
              /\ s <= MaxStock
              /\ w > 0 => s < MaxStock
    /\ products[P2].stock_quantity = Unlimited
    /\ Cardinality(DOMAIN orders) = Cardinality({r \in ReqIds : reqs[r].pc = "done"})
    /\ \A r \in ReqIds : reqs[r].pc = "done" =>
          \E oid \in DOMAIN orders :
             /\ Len(orders[oid].items) = Len(reqs[r].req.items)
             /\ \A k \in 1..Len(orders[oid].items) :
                   /\ orders[oid].items[k].product_id = reqs[r].req.items[k].product_id
                   /\ orders[oid].items[k].quantity = reqs[r].req.items[k].quantity

(* The lost update: both requests, one unit of the same product each, have *)
(* stored their order, and the stock is lower by one unit only.            *)
C10_Witness ==
    /\ \A r \in ReqIds : reqs[r].pc = "done" /\ reqs[r].req.items = <<Line(P1, 1)>>
    /\ Cardinality(DOMAIN orders) = 2
    /\ products[P1].stock_quantity = InStock(MaxStock - 1)

(* The buyer of the order, or the owner of the order's merchant.           *)
BuyerOrOwner(o, user_id) ==
    \/ o.buyer_id = user_id
    \/ o.umkm_id \in DOMAIN umkms /\ umkms[o.umkm_id].owner_id = user_id

(* C11: for every stored order, whatever its status, and every user,       *)
(* cancel_order succeeds only for the buyer or the owner of the order's    *)
(* merchant; for any other user it fails with Unauthorized and leaves the  *)
(* order store and the product store as they were.                         *)
C11_CancelAuthorization ==
    \A oid \in DOMAIN orders : \A u \in DOMAIN users : \A reason \in ReasonInputs :
        LET r == cancel_order(umkms, products, orders, now, oid, u, reason)
        IN  /\ r.err = OK => BuyerOrOwner(orders[oid], u)
            /\ ~BuyerOrOwner(orders[oid], u) =>
                  /\ r.err = "Unauthorized: You cannot cancel this order"
                  /\ r.products = products
                  /\ r.orders = orders

(* A Placed order that its buyer and the merchant owner can cancel, and    *)
(* that the owner of another merchant and the admin cannot.                *)
C11_Witness ==
    /\ last.op = "create_order" /\ last.err = OK
    /\ orders[last.order_id].status = "placed"
    /\ \A u \in {B1, S1} :
          cancel_order(umkms, products, orders, now, last.order_id, u, "changed mind").err = OK
    /\ \A u \in {S2, A1} :
          cancel_order(umkms, products, orders, now, last.order_id, u, "changed mind").err
             = "Unauthorized: You cannot cancel this order"

(* The trigger update_order_status is to apply for a requested status.     *)
TriggerOf(new_status) ==
    CASE new_status = "confirmed" -> "confirm"
      [] new_status = "preparing" -> "markPreparing"
      [] new_status = "ready" -> "markReady"
      [] new_status = "completed" -> "complete"
      [] OTHER -> "none"

(* C12: for every stored order, every user and every status value: when    *)
(* the user owns the order's merchant, the value is one of confirmed,      *)
(* preparing, ready, completed and the state machine accepts its trigger,  *)
(* update_order_status succeeds and the store then holds the order as that *)
(* trigger leaves it, with the requested status; in every other case it    *)
(* fails and the order store is unchanged; confirm_order gives the result  *)
(* of update_order_status with "confirmed".                                *)
C12_UpdateOrderStatus ==
    \A oid \in DOMAIN orders : \A u \in DOMAIN users :
        /\ \A st \in Statuses :
              LET o == orders[oid]
                  r == update_order_status(umkms, orders, oid, u, st)
                  owner == o.umkm_id \in DOMAIN umkms /\ umkms[o.umkm_id].owner_id = u
                  accepted == /\ owner
                              /\ TriggerOf(st) # "none"
                              /\ TableNext(o.status, TriggerOf(st)) # "rejected"
              IN  IF accepted
                  THEN /\ r.err = OK
                       /\ DOMAIN r.orders = DOMAIN orders
                       /\ find_by_id(r.orders, oid) = <<Fire(TriggerOf(st), o).order>>
                       /\ r.orders[oid].status = st
                       /\ \A other \in DOMAIN orders \ {oid} : r.orders[other] = orders[other]
                  ELSE /\ r.err # OK
                       /\ r.orders = orders
                       /\ ~owner => r.err = "Unauthorized: You don't own this UMKM"
        /\ confirm_order(umkms, orders, oid, u)
              = update_order_status(umkms, orders, oid, u, "confirmed")

(* update_order_status has stored an order as Ready; asking for Ready      *)
(* again, or for an unknown status, is rejected.                           *)
C12_Witness ==
    /\ last.op = "update_order_status" /\ last.err = OK
    /\ orders[last.order_id].status = "ready"
    /\ update_order_status(umkms, orders, last.order_id, S1, "ready").err
          = "Only preparing orders can be marked as ready"
    /\ update_order_status(umkms, orders, last.order_id, S1, "cancelled").err
          = "Invalid status"
    /\ update_order_status(umkms, orders, last.order_id, S1, "completed").err = OK

(* The merchant transitions: the status each operation leads to from each  *)
(* status, or "rejected".                                                  *)
UmkmStatuses == {"pending", "active", "suspended", "closed"}
UmkmTable(s, t) ==
    CASE t = "approve" -> IF s = "pending" THEN "active" ELSE "rejected"
      [] t = "suspend" -> IF s = "closed" THEN "rejected" ELSE "suspended"
      [] t = "reactivate" -> IF s = "closed" THEN "rejected" ELSE "active"
      [] OTHER -> "closed"

UmkmFire(t, u) ==
    CASE t = "approve" -> approve(u)
      [] t = "suspend" -> suspend(u)
      [] t = "reactivate" -> reactivate(u)
      [] OTHER -> close(u)

(* C13: for every stored merchant (every status is reachable) and each of  *)
(* approve, suspend, reactivate and close, the operation succeeds exactly  *)
(* when the table has the pair and then leads to the table's status; a     *)
(* rejected operation leaves the merchant as it was.                       *)
C13_MerchantTransitions ==
    \A m \in DOMAIN umkms : \A t \in {"approve", "suspend", "reactivate", "close"} :
        LET u == umkms[m]
            r == UmkmFire(t, u)
        IN  /\ u.status \in UmkmStatuses
            /\ IF UmkmTable(u.status, t) # "rejected"
               THEN r.err = OK /\ r.umkm = [u EXCEPT !.status = UmkmTable(u.status, t)]
               ELSE r.err # OK /\ r.umkm = u

(* A merchant reactivated while it was still Pending, next to one that is  *)
(* still Pending.                                                          *)
C13_Witness ==
    /\ last.op = "reactivate" /\ last.err = OK
    /\ umkms[M1].status = "active"
    /\ umkms[M2].status = "pending"
    /\ orders = <<>>

(* A closed merchant rejects approve, suspend and reactivate, stays closed *)
(* under close, does not accept orders, and every create_order against it  *)
(* fails and writes nothing.                                               *)
ClosedRejects ==
    \A m \in DOMAIN umkms : umkms[m].status = "closed" =>
        /\ approve(umkms[m]).err # OK /\ approve(umkms[m]).umkm = umkms[m]
        /\ suspend(umkms[m]).err # OK /\ suspend(umkms[m]).umkm = umkms[m]
        /\ reactivate(umkms[m]).err # OK /\ reactivate(umkms[m]).umkm = umkms[m]
        /\ close(umkms[m]).umkm = umkms[m]
        /\ ~can_accept_orders(umkms[m])
        /\ \A req \in Requests : req.umkm_id = m =>
              LET r == create_order(umkms, products, orders, now, req)
              IN  /\ r.err = "UMKM is not accepting orders"
                  /\ r.products = products /\ r.orders = orders

(* C14: a merchant that is Closed is Closed after every step, and in every *)
(* state a Closed merchant rejects the transitions and every create_order. *)
C14_ClosedTerminal ==
    /\ []ClosedRejects
    /\ [][\A m \in DOMAIN umkms : umkms[m].status = "closed" =>
             m \in DOMAIN umkms' /\ umkms'[m].status = "closed"]_vars

(* A merchant that took an order while Active and was closed afterwards.   *)
C14_Witness ==
    /\ last.op = "close" /\ last.err = OK
    /\ umkms[M1].status = "closed"
    /\ DOMAIN orders # {}
    /\ products[P1].stock_quantity = InStock(0)

(* C15: for every stored product and every positive quantity,              *)
(* can_be_ordered is true exactly when the product is available and its    *)
(* stock is unlimited or at least the quantity; reduce_stock fails with    *)
(* "Insufficient stock" whenever can_be_ordered is false, and a failed     *)
(* reduce_stock leaves the product as it was.                              *)
C15_ReserveFailsUnlessCanReserve ==
    \A pid \in DOMAIN products : \A q \in 1..MaxQty :
        LET p == products[pid]
            r == reduce_stock(p, q)
        IN  /\ can_be_ordered(p, q) <=>
                  /\ p.is_available
                  /\ p.stock_quantity = Unlimited \/ p.stock_quantity[1] >= q
            /\ ~can_be_ordered(p, q) => r.err = "Insufficient stock"
            /\ r.err # OK => r.product = p

(* The first line of a request that does not fit: its product is not       *)
(* available, or its finite stock, less what the earlier lines of the same *)
(* request took of it, is below the line's quantity.                       *)
LineFits(lines, i) ==
    LET p == products[lines[i].product_id]
    IN  /\ p.is_available
        /\ \/ p.stock_quantity = Unlimited
           \/ p.stock_quantity[1] - Requested(lines, i - 1, lines[i].product_id)
                 >= lines[i].quantity

FirstMisfit(lines) ==
    IF \A i \in 1..Len(lines) : LineFits(lines, i) THEN 0
    ELSE CHOOSE i \in 1..Len(lines) :
            ~LineFits(lines, i) /\ \A j \in 1..(i - 1) : LineFits(lines, j)

(* C16: for every request to an Active merchant whose lines name stored    *)
(* products of that merchant in positive quantities, create_order takes    *)
(* the lines in request order and checks each against the stock less what  *)
(* the earlier lines of the request took: it fails at the first line that  *)
(* does not fit, with the availability error, having reserved exactly the  *)
(* lines before it, and no stock goes below 0; when every line fits, every *)
(* line is reserved.                                                       *)
C16_LinesSeeEarlierLines ==
    \A req \in Requests :
        (/\ req.umkm_id \in DOMAIN umkms
         /\ umkms[req.umkm_id].status = "active"
         /\ \A i \in 1..Len(req.items) :
               /\ req.items[i].product_id \in DOMAIN products
               /\ products[req.items[i].product_id].umkm_id = req.umkm_id
               /\ req.items[i].quantity > 0)
        =>
        LET r == create_order(umkms, products, orders, now, req)
            f == FirstMisfit(req.items)
        IN  /\ f = 0 => r.reserved = Len(req.items)
            /\ f # 0 =>
                  /\ r.err = "Product is not available in requested quantity"
                  /\ r.reserved = f - 1
                  /\ r.orders = orders
            /\ \A p \in DOMAIN products : Finite(products[p]) =>
                  /\ r.products[p].stock_quantity[1] >= 0
                  /\ r.products[p].stock_quantity[1]
                        = products[p].stock_quantity[1] - Requested(req.items, r.reserved, p)

(* A request of two lines for the same product was rejected at its second  *)
(* line: the first line took the whole stock, which the second line saw.   *)
C16_Witness ==
    /\ last.op = "create_order"
    /\ last.err = "Product is not available in requested quantity"
    /\ last.reserved = 1
    /\ umkms[M1].status = "active"
    /\ products[P1].is_available
    /\ products[P1].stock_quantity = InStock(0)
    /\ create_order(umkms, products, orders, now,
                    [buyer_id |-> B1, umkm_id |-> M1, items |-> <<Line(P1, 1)>>,
                     pickup_time |-> NoPickup]).err
          = "Product is not available in requested quantity"

(* For a product of unlimited stock, reduce_stock and increase_stock hand  *)
(* back the product as it was, and create_order and cancel_order leave the *)
(* stored product as it was.                                               *)
UnlimitedUntouched ==
    \A pid \in DOMAIN products : products[pid].stock_quantity = Unlimited =>
        /\ \A q \in 1..MaxQty :
              /\ reduce_stock(products[pid], q) = [err |-> OK, product |-> products[pid]]
              /\ increase_stock(products[pid], q) = [err |-> OK, product |-> products[pid]]
        /\ \A req \in ConcRequests :
              create_order(umkms, products, orders, now, req).products[pid] = products[pid]
        /\ \A oid \in DOMAIN orders : \A u \in DOMAIN users : \A reason \in ReasonInputs :
              cancel_order(umkms, products, orders, now, oid, u, reason).products[pid]
                 = products[pid]

(* C17: the above in every state, and no step that writes an order (a      *)
(* create_order or a cancel_order) changes a product of unlimited stock.   *)
C17_UnlimitedStockNoOp ==
    /\ []UnlimitedUntouched
    /\ [][orders' # orders =>
             \A pid \in DOMAIN products : products[pid].stock_quantity = Unlimited =>
                pid \in DOMAIN products' /\ products'[pid] = products[pid]]_vars

(* An order with a line for the product of unlimited stock was created and *)
(* cancelled, and the product is as it was registered.                     *)
C17_Witness ==
    /\ last.op = "cancel_order" /\ last.err = OK
    /\ orders[last.order_id].status = "cancelled"
    /\ \E i \in 1..Len(orders[last.order_id].items) :
          orders[last.order_id].items[i].product_id = P2
    /\ products[P2] = InitProducts[P2]

(* C18: in every step (a product edit, a create_order or a cancel_order),  *)
(* every stored order keeps its lines (product, name, unit price,          *)
(* quantity) and its total_amount; the lines of an order that enters the   *)
(* store carry the name and the price its products had at that step.       *)
C18_LinesAreSnapshots ==
    [][/\ \A oid \in DOMAIN orders :
             /\ oid \in DOMAIN orders'
             /\ orders'[oid].items = orders[oid].items
             /\ orders'[oid].total_amount = orders[oid].total_amount
       /\ \A oid \in DOMAIN orders' \ DOMAIN orders :
             \A i \in 1..Len(orders'[oid].items) :
                LET item == orders'[oid].items[i]
                IN  /\ item.product_name = products[item.product_id].name
                    /\ item.unit_price = products[item.product_id].price]_vars

(* An order holds a line for a product that has since been renamed,        *)
(* repriced, restocked and made unavailable: the line still has the name   *)
(* and the price of the time of the order.                                 *)
C18_Witness ==
    /\ 1 \in DOMAIN orders
    /\ orders[1].status = "placed"
    /\ orders[1].items = <<[product_id |-> P1, product_name |-> InitProducts[P1].name,
                            quantity |-> 1, unit_price |-> Price1]>>
    /\ orders[1].total_amount = Price1
    /\ products[P1].name = "nasi goreng"
    /\ products[P1].price = Price3
    /\ products[P1].stock_quantity = InStock(MaxStock)
    /\ ~products[P1].is_available

(* C19: for every stored order, cancelled_at is set exactly when the       *)
(* status is Cancelled and cancellation_reason is set only then; and for   *)
(* every user and every reason (also none), a cancel_order that succeeds   *)
(* stores the current time as cancelled_at and the reason it was given.    *)
C19_CancelledAtIffCancelled ==
    \A oid \in DOMAIN orders :
        /\ orders[oid].cancelled_at # NoTime <=> orders[oid].status = "cancelled"
        /\ orders[oid].cancellation_reason # NoReason => orders[oid].status = "cancelled"
        /\ \A u \in DOMAIN users : \A reason \in ReasonInputs \cup {NoReason} :
              LET r == cancel_order(umkms, products, orders, now, oid, u, reason)
              IN  r.err = OK =>
                     /\ r.orders[oid].status = "cancelled"
                     /\ r.orders[oid].cancelled_at = now
                     /\ r.orders[oid].cancellation_reason = reason

(* An order placed at time 1 and cancelled by cancel_order at the last     *)
(* time of the model, next to the time and the reason it recorded.         *)
C19_Witness ==
    /\ last.op = "cancel_order" /\ last.err = OK
    /\ now = MaxTime
    /\ orders[last.order_id].status = "cancelled"
    /\ orders[last.order_id].cancelled_at = MaxTime
    /\ orders[last.order_id].cancellation_reason = "changed mind"

(* The stock a finite-stock product had before the lines of the stored     *)
(* order were reserved is the stock it was registered with; the stock at   *)
(* the start of the cancel_order is that, less the lines of the order.     *)
StockAtCancel(order_id, p) ==
    InitProducts[p].stock_quantity[1]
       - Requested(orders[order_id].items, Len(orders[order_id].items), p)

(* C20: at every point of a cancel_order, the stock of every finite-stock  *)
(* product is its stock at the start plus the quantities of the lines      *)
(* already passed, in line order; the order store is written only when     *)
(* every line has been passed, and no sooner: while the request is under   *)
(* way the stored order is not Cancelled, and when the stored order is     *)
(* Cancelled every line of it has been restored.                           *)
C20_RestoreBeforeCancel ==
    \A r \in CancelReqIds :
        LET req == reqs[r]
            o == orders[req.order_id]
        IN  /\ req.i \in 1..(Len(o.items) + 1)
            /\ \A p \in DOMAIN products : Finite(products[p]) =>
                  products[p].stock_quantity[1]
                     = StockAtCancel(req.order_id, p) + Requested(o.items, req.i - 1, p)
            /\ req.pc \in {"fetch_order", "fetch_umkm", "failed"} => req.i = 1
            /\ req.pc = "save_order" => req.i = Len(o.items) + 1
            /\ req.pc # "done" => o.status # "cancelled"
            /\ o.status = "cancelled" =>
                  /\ req.pc = "done"
                  /\ req.i = Len(o.items) + 1
                  /\ \A p \in DOMAIN products : Finite(products[p]) =>
                        products[p].stock_quantity = InitProducts[p].stock_quantity

(* The first of two lines for the same product has been restored and       *)
(* saved, the second has not, and the stored order is still Confirmed.     *)
C20_Witness ==
    /\ reqs[1].pc = "find_product" /\ reqs[1].i = 2
    /\ orders[1].status = "confirmed"
    /\ orders[1].items[1].product_id = P1 /\ orders[1].items[2].product_id = P1
    /\ products[P1].stock_quantity = InStock(1)

(* A line create_order passes: its product is stored, belongs to the       *)
(* merchant of the request, is asked in a positive quantity and fits.      *)
GoodLine(req, i) ==
    /\ req.items[i].product_id \in DOMAIN products
    /\ products[req.items[i].product_id].umkm_id = req.umkm_id
    /\ req.items[i].quantity > 0
    /\ LineFits(req.items, i)

(* C21: every stored order has at least one line and no line names a       *)
(* product of another merchant (the product of a line is of the order's    *)
(* merchant, or has been deleted since); a create_order that succeeds had  *)
(* only lines naming stored products of the merchant when it processed     *)
(* them; and for every request to an Active merchant, at                   *)
(* the first line that names an absent product (a product of another       *)
(* merchant) after lines that all passed, create_order fails with "Product *)
(* not found" ("Product does not belong to this UMKM"), having reserved    *)
(* the lines before it and nothing for that line, and stores no order.     *)
C21_LinesBelongToMerchant ==
    /\ \A oid \in DOMAIN orders :
          /\ Len(orders[oid].items) >= 1
          /\ \A i \in 1..Len(orders[oid].items) :
                orders[oid].items[i].product_id \in DOMAIN products =>
                   products[orders[oid].items[i].product_id].umkm_id = orders[oid].umkm_id
    /\ \A req \in Requests :
          LET r == create_order(umkms, products, orders, now, req)
              active == req.umkm_id \in DOMAIN umkms /\ umkms[req.umkm_id].status = "active"
          IN  /\ r.err = OK =>
                    /\ Len(req.items) >= 1
                    /\ \A i \in 1..Len(req.items) : GoodLine(req, i)
              /\ \A i \in 1..Len(req.items) :
                    (active /\ \A j \in 1..(i - 1) : GoodLine(req, j)) =>
                       LET pid == req.items[i].product_id
                           stopped(e) ==
                               /\ r.err = e
                               /\ r.reserved = i - 1
                               /\ r.orders = orders
                               /\ \A p \in DOMAIN products : Finite(products[p]) =>
                                     r.products[p].stock_quantity[1]
                                        = products[p].stock_quantity[1]
                                             - Requested(req.items, i - 1, p)
                       IN  /\ pid \notin DOMAIN products => stopped("Product not found")
                           /\ (pid \in DOMAIN products
                                 /\ products[pid].umkm_id # req.umkm_id) =>
                                 stopped("Product does not belong to this UMKM")

(* A request whose second line names a product of another merchant was     *)
(* rejected for it after its first line was reserved; the other merchant's *)
(* product has its stock.                                                  *)
C21_Witness ==
    /\ last.op = "create_order"
    /\ last.err = "Product does not belong to this UMKM"
    /\ last.reserved = 1
    /\ orders = <<>>
    /\ products[P1].stock_quantity = InStock(MaxStock - 1)
    /\ products[P3].stock_quantity = InStock(MaxStock)

(* C22: for every line list, pickup time and total, the validation of a    *)
(* new order fails with "Order must have at least one item" for no lines,  *)
(* else with "Pickup time must be in the future" for a pickup time that is *)
(* given and not after the current time, else with "Order total must be    *)
(* positive" for a total <= 0, and passes otherwise; a create_order with   *)
(* no lines fails (for an Active merchant with the first error) and leaves *)
(* the product store and the order store as they were.                     *)
C22_OrderConstruction ==
    /\ \A items \in ItemsInputs : \A pickup_time \in {NoPickup} \cup 1..MaxTime :
          \A total_amount \in (0 - 1)..1 :
             validate_order(items, pickup_time, total_amount, now)
                = CASE Len(items) = 0 -> "Order must have at least one item"
                    [] Len(items) > 0 /\ pickup_time # NoPickup /\ pickup_time <= now ->
                          "Pickup time must be in the future"
                    [] Len(items) > 0 /\ (pickup_time = NoPickup \/ pickup_time > now)
                          /\ total_amount <= 0 -> "Order total must be positive"
                    [] OTHER -> OK
    /\ \A req \in Requests : Len(req.items) = 0 =>
          LET r == create_order(umkms, products, orders, now, req)
          IN  /\ r.err # OK
              /\ r.products = products
              /\ r.orders = orders
              /\ (req.umkm_id \in DOMAIN umkms /\ umkms[req.umkm_id].status = "active") =>
                    r.err = "Order must have at least one item"
    /\ \A req \in Requests :
          LET r == create_order(umkms, products, orders, now, req)
          IN  /\ r.err = "Pickup time must be in the future" =>
                    req.pickup_time # NoPickup /\ req.pickup_time <= now
              /\ r.err = OK => req.pickup_time = NoPickup \/ req.pickup_time > now

(* A create_order with a pickup time equal to the current time was         *)
(* rejected for it, and the merchant is Active, so that a request with no  *)
(* lines is rejected for having none.                                      *)
C22_Witness ==
    /\ last.op = "create_order" /\ last.err = "Pickup time must be in the future"
    /\ now = MaxTime
    /\ umkms[M1].status = "active"
    /\ create_order(umkms, products, orders, now,
                    [buyer_id |-> B1, umkm_id |-> M1, items |-> <<>>,
                     pickup_time |-> NoPickup]).err = "Order must have at least one item"

(* C30: for every stored order and every trigger the table does not allow  *)
(* in its status, the trigger fails with an InvalidTransition error whose  *)
(* text names the status of the order.                                     *)
C30_ErrorNamesStatus ==
    \A oid \in DOMAIN orders : \A t \in Triggers :
        TableNext(orders[oid].status, t) = "rejected" =>
            /\ Fire(t, orders[oid]).err \in InvalidTransition
            /\ Fire(t, orders[oid]).status_named = orders[oid].status

(* The sum of the ratings of the first k stored reviews of merchant m.     *)
RECURSIVE SumRatings(_, _, _)
SumRatings(rs, m, k) ==
    IF k = 0 THEN 0
    ELSE SumRatings(rs, m, k - 1) + (IF rs[k].umkm_id = m THEN rs[k].rating ELSE 0)
RatingSum(m) == SumRatings(reviews, m, Cardinality(DOMAIN reviews))
RatingsOf(m) == Cardinality({id \in DOMAIN reviews : reviews[id].umkm_id = m})
InScale(x) == float_le(FloatOfInt(1), x) /\ float_le(x, FloatOfInt(5))

(* |x * n - total| <= n^2 / 2^49, in exact arithmetic, for a float x >= 0. *)
ProductNear(x, n, total) ==
    LET e == IF x.exp < 0 - 49 THEN x.exp ELSE 0 - 49
        a == ShiftLeft(Times(x.sig, n), x.exp - e)
        t == ShiftLeft(DigitsOf(total), 0 - e)
        d == ShiftLeft(DigitsOf(n * n), (0 - 49) - e)
    IN  ~LessDigits(Plus(t, d), a) /\ ~LessDigits(Plus(a, d), t)

(* C23 as stated: after the n accepted ratings s1..sn of a merchant its    *)
(* rating_count is n, rating_average * n is s1 + ... + sn, and the average *)
(* is within [1, 5] when the count is positive.                            *)
C23_RunningMeanExact ==
    \A m \in DOMAIN umkms :
        /\ umkms[m].rating_count = RatingsOf(m)
        /\ float_mul_int(umkms[m].rating_average, umkms[m].rating_count)
              = FloatOfInt(RatingSum(m))
        /\ umkms[m].rating_count > 0 => InScale(umkms[m].rating_average)

(* C23: after the n accepted ratings s1..sn of a merchant its rating_count *)
(* is n, its rating_average is within [1, 5] when n > 0, and               *)
(* rating_average * n is s1 + ... + sn up to the rounding of the float     *)
(* arithmetic: it differs from the sum by at most n^2 / 2^49, and the      *)
(* float product is the sum for every n <= 6.                              *)
C23_RunningMean ==
    \A m \in DOMAIN umkms :
        /\ umkms[m].rating_count = RatingsOf(m)
        /\ ProductNear(umkms[m].rating_average, umkms[m].rating_count, RatingSum(m))
        /\ umkms[m].rating_count <= 6 =>
              float_mul_int(umkms[m].rating_average, umkms[m].rating_count)
                 = FloatOfInt(RatingSum(m))
        /\ umkms[m].rating_count > 0 => InScale(umkms[m].rating_average)

(* Seven ratings were folded in and the average is not a whole number.     *)
C23_Witness ==
    /\ umkms[M1].rating_count = MaxReviews
    /\ RatingSum(M1) = 29
    /\ umkms[M1].rating_average.exp < 0

(* C24: for every stored merchant, update_rating with a score below 1 or   *)
(* above 5 fails with "Rating must be between 1 and 5" and returns the     *)
(* merchant as it was; a create_review with such a score fails with the    *)
(* same error and writes neither the merchant nor a review.                *)
C24_InvalidRating ==
    /\ \A m \in DOMAIN umkms : \A score \in {0 - 1, 0, 6, 7} :
          /\ update_rating(umkms[m], score).err = "Rating must be between 1 and 5"
          /\ update_rating(umkms[m], score).umkm = umkms[m]
    /\ \A req \in ReviewRequests : (req.rating < 1 \/ req.rating > 5) =>
          LET r == create_review(umkms, orders, reviews, req)
          IN  /\ req.umkm_id \in DOMAIN umkms =>
                    r.err = "Rating must be between 1 and 5"
              /\ r.umkms = umkms
              /\ r.reviews = reviews

(* A merchant rated 5 and then 3 has the average 4; a score of 6 is        *)
(* rejected there.                                                         *)
C24_Witness ==
    /\ umkms[M1].rating_count = 2
    /\ umkms[M1].rating_average = FloatOfInt(4)
    /\ reviews[1].rating = 5 /\ reviews[2].rating = 3
    /\ update_rating(umkms[M1], 6).err # OK

(* The usage limit of promo p is set and reached.                          *)
LimitReached(p) == p.usage_limit # <<>> /\ p.usage_count >= p.usage_limit[1]

(* C25: for every stored promo and every time, is_valid is true exactly    *)
(* when the promo is active, the time is within [valid_from, valid_until], *)
(* both ends included, and no usage limit is set or usage_count is below   *)
(* it.                                                                     *)
C25_IsValid ==
    \A id \in DOMAIN promos : \A t \in 0..(MaxTime + 2) :
        is_valid(promos[id], t)
           <=> /\ promos[id].is_active
               /\ promos[id].valid_from <= t /\ t <= promos[id].valid_until
               /\ (promos[id].usage_limit = <<>>
                     \/ promos[id].usage_count < promos[id].usage_limit[1])

(* At the last instant of its window a promo whose usage limit is not     *)
(* reached is valid, and a discount has been computed from it.             *)
C25_Witness ==
    /\ PromoId \in DOMAIN promos
    /\ now = promos[PromoId].valid_until
    /\ promos[PromoId].valid_from < now
    /\ promos[PromoId].usage_limit = <<1>> /\ promos[PromoId].usage_count = 0
    /\ is_valid(promos[PromoId], now)
    /\ last.op = "calculate_discount" /\ last.discount # FloatOfInt(0)

(* C26: for every stored promo and order amount, calculate_discount is 0   *)
(* when the promo is inactive, when the current time is outside            *)
(* [valid_from, valid_until], when usage_count has reached usage_limit,    *)
(* or when the amount is below min_purchase.                               *)
C26_ZeroWhenNotApplicable ==
    \A id \in DOMAIN promos : \A a \in AmountInputs :
        LET p == promos[id]
        IN  (\/ ~p.is_active
             \/ now < p.valid_from \/ now > p.valid_until
             \/ LimitReached(p)
             \/ (p.min_purchase # <<>> /\ a < p.min_purchase[1]))
            => /\ ~can_apply_to_order(p, a, now)
               /\ calculate_discount(p, a, now) = FloatOfInt(0)

(* An active percentage promo inside its window, with usage_limit 1 and    *)
(* usage_count 1, was asked for the discount on 50000 and gave 0.          *)
C26_Witness ==
    /\ PromoId \in DOMAIN promos
    /\ promos[PromoId].promo_type = "percentage"
    /\ promos[PromoId].is_active
    /\ promos[PromoId].valid_from <= now /\ now <= promos[PromoId].valid_until
    /\ promos[PromoId].usage_limit = <<1>> /\ promos[PromoId].usage_count = 1
    /\ promos[PromoId].min_purchase = <<>>
    /\ last.op = "calculate_discount" /\ last.order_amount = 50000
    /\ last.discount = FloatOfInt(0)

(* |x * 100 - a * d| <= a * d / 2^51, in exact arithmetic, for a float     *)
(* x >= 0.                                                                 *)
PercentNear(x, a, d) ==
    LET e == (IF x.exp < 0 THEN x.exp ELSE 0) - 51
        left == ShiftLeft(Times(x.sig, 100), x.exp - e)
        right == ShiftLeft(DigitsOf(a * d), 0 - e)
        slack == ShiftLeft(DigitsOf(a * d), (0 - 51) - e)
    IN  ~LessDigits(Plus(right, slack), left) /\ ~LessDigits(Plus(left, slack), right)

(* C27 as stated: for an applicable percentage promo the discount is       *)
(* order_amount * discount_value / 100, the product divided by 100, or the *)
(* minimum of that and max_discount when it is set.                        *)
C27_PercentageExact ==
    \A id \in DOMAIN promos : \A a \in AmountInputs :
        LET p == promos[id]
            share == float_div_int(FloatOfInt(a * p.discount_value), 100)
        IN  (p.promo_type = "percentage" /\ can_apply_to_order(p, a, now)) =>
                calculate_discount(p, a, now)
                   = IF p.max_discount = <<>> THEN share
                     ELSE float_min(share, FloatOfInt(p.max_discount[1]))

(* C27: for an applicable percentage promo with a max_discount the        *)
(* discount is the minimum of max_discount and the discount without it     *)
(* (10%, at most 2000, on 50000 gives 2000), and the discount without a    *)
(* max_discount is order_amount * discount_value / 100 up to the rounding  *)
(* of the float quotient and product (a relative error of at most 2^-51).  *)
C27_Percentage ==
    \A id \in DOMAIN promos : \A a \in AmountInputs :
        LET p == promos[id]
            share == calculate_discount([p EXCEPT !.max_discount = <<>>], a, now)
        IN  (p.promo_type = "percentage" /\ can_apply_to_order(p, a, now)) =>
                /\ calculate_discount(p, a, now)
                      = IF p.max_discount = <<>> THEN share
                        ELSE float_min(share, FloatOfInt(p.max_discount[1]))
                /\ (p.discount_value = 10 /\ p.max_discount = <<2000>> /\ a = 50000) =>
                      calculate_discount(p, a, now) = FloatOfInt(2000)
                /\ PercentNear(share, a, p.discount_value)

(* A 1% promo without a cap was asked for the discount on 35 and gave a    *)
(* float that is not 35 / 100.                                             *)
C27_Witness ==
    /\ PromoId \in DOMAIN promos
    /\ promos[PromoId].promo_type = "percentage"
    /\ promos[PromoId].discount_value = 1 /\ promos[PromoId].max_discount = <<>>
    /\ last.op = "calculate_discount" /\ last.order_amount = 35
    /\ last.discount # FloatOfInt(0)
    /\ last.discount # float_div_int(FloatOfInt(35), 100)

(* C28: for every stored promo and order amount >= 0, an applicable        *)
(* fixed-amount promo gives min(discount_value, order_amount), and the     *)
(* discount of a promo of any type is at least 0 and at most the amount.   *)
C28_DiscountWithinTotal ==
    \A id \in DOMAIN promos : \A a \in AmountInputs :
        LET p == promos[id]
            discount == calculate_discount(p, a, now)
        IN  /\ (p.promo_type = "fixed_amount" /\ can_apply_to_order(p, a, now)) =>
                  discount = FloatOfInt(IF p.discount_value < a THEN p.discount_value ELSE a)
            /\ float_le(FloatOfInt(0), discount)
            /\ float_le(discount, FloatOfInt(a))

(* C29: for every stored promo, increment_usage adds exactly 1 to          *)
(* usage_count when no limit is set or usage_count is below it, and fails  *)
(* with "Promo usage limit exceeded", the promo unchanged, when the limit  *)
(* is reached; activate and deactivate keep usage_count; and usage_count   *)
(* never exceeds a usage limit that is set.                                *)
C29_UsageWithinLimit ==
    \A id \in DOMAIN promos :
        LET p == promos[id]
            r == increment_usage(p)
        IN  /\ (p.usage_limit = <<>> \/ p.usage_count < p.usage_limit[1]) =>
                  r.err = OK /\ r.promo = [p EXCEPT !.usage_count = p.usage_count + 1]
            /\ LimitReached(p) =>
                  r.err = "Promo usage limit exceeded" /\ r.promo = p
            /\ activate(p).usage_count = p.usage_count
            /\ deactivate(p).usage_count = p.usage_count
            /\ p.usage_limit # <<>> => p.usage_count <= p.usage_limit[1]

(* A promo with usage_limit 1 was used once, which was recorded, then      *)
(* switched off; one more use is refused.                                  *)
C29_Witness ==
    /\ PromoId \in DOMAIN promos
    /\ promos[PromoId].usage_limit = <<1>> /\ promos[PromoId].usage_count = 1
    /\ ~promos[PromoId].is_active
    /\ last.op = "deactivate"
    /\ increment_usage(promos[PromoId]).err = "Promo usage limit exceeded"

(* Quantity of product p in the lines of the stored orders 1..n that are   *)
(* not Cancelled.                                                          *)
RECURSIVE OpenQuantity(_, _, _)
OpenQuantity(os, n, p) ==
    IF n = 0 THEN 0
    ELSE (IF os[n].status # "cancelled"
          THEN Requested(os[n].items, Len(os[n].items), p) ELSE 0)
         + OpenQuantity(os, n - 1, p)

(* The stock of a finite-stock product together with the quantities the    *)
(* orders that are not Cancelled hold of it.                               *)
Held(ps, os, p) == ps[p].stock_quantity[1] + OpenQuantity(os, Cardinality(DOMAIN os), p)

(* A create_order that failed after it had reserved a line, or the         *)
(* deletion of a product, is the step just taken.                          *)
OutsideLedger(outcome) ==
    \/ outcome.op = "create_order" /\ outcome.err # OK
    \/ outcome.op = "delete_product"

(* C31: stock conservation.  With no order stored, every finite-stock      *)
(* product holds its initial stock; every create_order that succeeds or    *)
(* fails before reserving a line, every status update and every            *)
(* cancel_order keeps, for each finite-stock product, the sum of its       *)
(* current stock and of the quantities its lines have in the stored orders *)
(* that are not Cancelled.  So along the calls the claim covers            *)
(* initialStock = currentStock + that sum.                                 *)
C31_StockConservation ==
    /\ \A p \in DOMAIN InitProducts : Finite(InitProducts[p]) =>
          Held(products, orders, p) = InitProducts[p].stock_quantity[1]
    /\ [][\A p \in DOMAIN products :
             (Finite(products[p]) /\ ~OutsideLedger(last')) =>
                /\ p \in DOMAIN products'
                /\ Finite(products'[p])
                /\ Held(products', orders', p) = Held(products, orders, p)]_vars

(* Two stored orders for the same finite-stock product, one unit each: the *)
(* first was cancelled and its unit is back, the second still holds its    *)
(* unit, and the initial stock is the stock plus the unit held.            *)
C31_Witness ==
    /\ last.op = "cancel_order" /\ last.err = OK /\ last.order_id = 1
    /\ DOMAIN orders = {1, 2}
    /\ orders[1].status = "cancelled" /\ orders[2].status = "confirmed"
    /\ Requested(orders[1].items, Len(orders[1].items), P1) = 1
    /\ Requested(orders[2].items, Len(orders[2].items), P1) = 1
    /\ products[P1].stock_quantity = InStock(MaxStock - 1)
    /\ Held(products, orders, P1) = InitProducts[P1].stock_quantity[1]

(* C34: cancel_order by the buyer or the merchant owner on a stored order  *)
(* that is not Completed or Cancelled succeeds even when products of its   *)
(* lines are gone from the product store: such a line is skipped, no       *)
(* deleted product comes back, every finite-stock product still stored     *)
(* gets the quantities of its lines back, and the order is stored as       *)
(* Cancelled.                                                              *)
C34_CancelSkipsDeletedProduct ==
    \A oid \in DOMAIN orders : \A u \in ActingUsers :
        (orders[oid].status \notin Terminal /\ Authorized(orders[oid], u)) =>
            LET c == cancel_order(umkms, products, orders, now, oid, u, "changed mind")
                items == orders[oid].items
            IN  /\ c.err = OK
                /\ c.orders[oid].status = "cancelled"
                /\ DOMAIN c.products = DOMAIN products
                /\ \A p \in DOMAIN products :
                      IF Finite(products[p])
                      THEN c.products[p] =
                             [products[p] EXCEPT !.stock_quantity =
                                InStock(products[p].stock_quantity[1]
                                          + Requested(items, Len(items), p))]
                      ELSE c.products[p] = products[p]

(* A cancelled order of two lines whose first product was deleted before   *)
(* the cancel: the product is still gone and the finite stock of the       *)
(* second line is back at its initial value.                               *)
C34_Witness ==
    /\ last.op = "cancel_order" /\ last.err = OK
    /\ orders[last.order_id].status = "cancelled"
    /\ Len(orders[last.order_id].items) = 2
    /\ orders[last.order_id].items[1].product_id = P2
    /\ orders[last.order_id].items[2].product_id = P1
    /\ orders[last.order_id].items[2].quantity = MaxStock
    /\ P2 \notin DOMAIN products
    /\ products[P1].stock_quantity = InStock(MaxStock)

(* C32: a cancel_order that succeeds adds, to the stock each finite-stock  *)
(* product has at that moment, the quantities of the order's lines for it, *)
(* whether the product is available or not and whatever the seller wrote   *)
(* to its stock since the order was placed; it changes no other field, no  *)
(* product without finite stock and no product the order has no line for.  *)
C32_CancelAddsToCurrentStock ==
    \A oid \in DOMAIN orders : \A u \in ActingUsers :
        LET c == cancel_order(umkms, products, orders, now, oid, u, "changed mind")
            items == orders[oid].items
        IN  c.err = OK =>
              /\ DOMAIN c.products = DOMAIN products
              /\ \A p \in DOMAIN products :
                    /\ Finite(products[p]) =>
                          /\ Finite(c.products[p])
                          /\ c.products[p].stock_quantity[1]
                                = products[p].stock_quantity[1] + Requested(items, Len(items), p)
                          /\ c.products[p] =
                                [products[p] EXCEPT !.stock_quantity = c.products[p].stock_quantity]
                    /\ ~Finite(products[p]) => c.products[p] = products[p]
                    /\ Requested(items, Len(items), p) = 0 => c.products[p] = products[p]

(* An order took the whole stock, the seller then wrote the full stock     *)
(* again and switched the product off, and the cancel added the order's    *)
(* quantity on top: the stock is above its initial value.                  *)
C32_Witness ==
    /\ last.op = "cancel_order" /\ last.err = OK
    /\ orders[last.order_id].status = "cancelled"
    /\ orders[last.order_id].items = <<[product_id |-> P1, product_name |-> P1,
                                        quantity |-> MaxQty, unit_price |-> Price1]>>
    /\ ~products[P1].is_available
    /\ products[P1].stock_quantity = InStock(MaxStock + MaxQty)

(* C33: when the two interleaved cancel_order requests for the same order  *)
(* have both ended and the order was cancelled, every finite-stock product *)
(* has the stock it had before the cancellations plus the quantities of    *)
(* the order's lines for it, once: the stock it had before the order.      *)
C33_RestoredAtMostOnce ==
    ((\A r \in CancelTwiceReqIds : reqs[r].pc \in {"done", "failed"})
        /\ (\E r \in CancelTwiceReqIds : reqs[r].pc = "done")) =>
       \A p \in DOMAIN products : Finite(products[p]) =>
          products[p].stock_quantity[1]
             = StockAtCancel(1, p) + Requested(orders[1].items, Len(orders[1].items), p)

(* Requests to merchant m1 with a line of quantity 0 or below for its      *)
(* finite-stock product, alone, after a good line and before one.          *)
NonPositiveLines == {Line(P1, q) : q \in {0 - MaxQty, 0 - 1, 0}}
NonPositiveRequests ==
    [buyer_id : {B1}, umkm_id : {M1}, pickup_time : {NoPickup},
     items : {<<bad>> : bad \in NonPositiveLines}
               \cup {<<Line(P1, 1), bad>> : bad \in NonPositiveLines}
               \cup {<<bad, Line(P1, 1)>> : bad \in NonPositiveLines}]

(* C35: a create_order with a line of quantity 0 or below never reserves   *)
(* that line and stores no order; when the merchant accepts orders, the    *)
(* lines before it pass and its product is stored, belongs to the merchant *)
(* and passes can_be_ordered, it fails with "Quantity must be positive",   *)
(* raised when the order line is built, with exactly the lines before it   *)
(* reserved.  So every line a create_order reserves has a positive         *)
(* quantity, and the stock of a finite-stock product goes down by the sum  *)
(* of those quantities: never up.                                          *)
C35_NonPositiveQuantityRejected ==
    \A req \in Requests \cup NonPositiveRequests :
        LET r == create_order(umkms, products, orders, now, req)
            active == req.umkm_id \in DOMAIN umkms /\ umkms[req.umkm_id].status = "active"
        IN  /\ r.reserved \in 0..Len(req.items)
            /\ \A k \in 1..r.reserved : req.items[k].quantity > 0
            /\ \A p \in DOMAIN products :
                  IF Finite(products[p])
                  THEN /\ r.products[p].stock_quantity[1]
                             = products[p].stock_quantity[1]
                                  - Requested(req.items, r.reserved, p)
                       /\ r.products[p].stock_quantity[1] <= products[p].stock_quantity[1]
                  ELSE r.products[p] = products[p]
            /\ \A i \in 1..Len(req.items) : req.items[i].quantity <= 0 =>
                  /\ r.err # OK
                  /\ r.reserved < i
                  /\ r.orders = orders
                  /\ (/\ active
                      /\ \A j \in 1..(i - 1) : GoodLine(req, j)
                      /\ req.items[i].product_id \in DOMAIN products
                      /\ products[req.items[i].product_id].umkm_id = req.umkm_id
                      /\ LineFits(req.items, i)) =>
                        r.err = "Quantity must be positive" /\ r.reserved = i - 1

(* A request of one unit and then of no unit of the same product was       *)
(* rejected for its second line when that line was built: the first unit   *)
(* is reserved, the stock is lower by that unit only, no order is stored.  *)
C35_Witness ==
    /\ last.op = "create_order"
    /\ last.err = "Quantity must be positive"
    /\ last.reserved = 1
    /\ last.order_id = NoOrder
    /\ orders = <<>>
    /\ products[P1].stock_quantity = InStock(MaxStock - 1)

(* Some store differs after the step.                                      *)
StoresChange == orders' # orders \/ products' # products \/ umkms' # umkms

(* C36: the stored orders, products and merchants change only through a    *)
(* save: every handler call that fails before its save (order or product   *)
(* or merchant not found, caller not the owner or not an admin, rejected   *)
(* transition, invalid status, negative stock) hands back the stores       *)
(* exactly as they were, and a step changes a store only when its handler  *)
(* succeeded, or is a create_order that saved products before it failed.   *)
C36_FailureLeavesStores ==
    /\ [](/\ \A oid \in OrderIds \cup {MaxOrders + 1} : \A u \in DOMAIN users :
                /\ \A st \in Statuses \cup {"bogus"} :
                      LET r == update_order_status(umkms, orders, oid, u, st)
                      IN  r.err # OK => r.orders = orders
                /\ LET k == confirm_order(umkms, orders, oid, u)
                   IN  k.err # OK => k.orders = orders
                /\ LET c == cancel_order(umkms, products, orders, now, oid, u, "changed mind")
                   IN  c.err # OK => c.orders = orders /\ c.products = products
          /\ \A p \in {P1, P2, P3, P4} : \A u \in DOMAIN users :
                /\ \A n \in StockInputs :
                      LET s == update_product_stock(umkms, products, p, u, n)
                      IN  s.err # OK => s.products = products
                /\ \A a \in BOOLEAN :
                      LET t == toggle_product_availability(umkms, products, p, u, a)
                      IN  t.err # OK => t.products = products
          /\ \A m \in {M1, M2, M3} : \A a \in DOMAIN users :
                /\ LET r == approve_umkm(umkms, m, a) IN r.err # OK => r.umkms = umkms
                /\ LET r == suspend_umkm(umkms, m, a) IN r.err # OK => r.umkms = umkms)
    /\ [][StoresChange => (last'.err = OK \/ last'.op = "create_order")]_vars

(* A stored Confirmed order on which the calls that fail before their save *)
(* hand back the order store as it is: a transition the state machine      *)
(* rejects, a caller who does not own the merchant, an invalid status.     *)
C36_Witness ==
    /\ last.op = "update_order_status" /\ last.err = OK
    /\ orders[last.order_id].status = "confirmed"
    /\ LET r == update_order_status(umkms, orders, last.order_id, S1, "completed")
       IN  r.err = "Only ready orders can be completed" /\ r.orders = orders
    /\ LET r == update_order_status(umkms, orders, last.order_id, S2, "preparing")
       IN  r.err = "Unauthorized: You don't own this UMKM" /\ r.orders = orders
    /\ LET r == update_order_status(umkms, orders, last.order_id, S1, "cancelled")
       IN  r.err = "Invalid status" /\ r.orders = orders

(* C37: while the merchant of a stored order is Suspended or Closed, its   *)
(* owner drives the order as the transition table says: update_order_status*)
(* and confirm_order succeed on exactly the table's pairs and cancel_order *)
(* on every order that is not Completed or Cancelled.  A suspend_umkm or   *)
(* close step changes the status of that one merchant and nothing else: no *)
(* other field of it, no other merchant, no order, no product.             *)
C37_SuspendCloseFrame ==
    /\ [](\A oid \in DOMAIN orders :
            LET o == orders[oid]
                owner == umkms[o.umkm_id].owner_id
            IN  umkms[o.umkm_id].status \in {"suspended", "closed"} =>
                  /\ \A st \in StatusInputs \ {"cancelled"} :
                        LET r == update_order_status(umkms, orders, oid, owner, st)
                        IN  IF TableNext(o.status, TriggerOf(st)) # "rejected"
                            THEN r.err = OK /\ r.orders[oid].status = st
                            ELSE r.err \in InvalidTransition /\ r.orders = orders
                  /\ LET k == confirm_order(umkms, orders, oid, owner)
                     IN  IF o.status = "placed"
                         THEN k.err = OK /\ k.orders[oid].status = "confirmed"
                         ELSE k.err \in InvalidTransition
                  /\ LET c == cancel_order(umkms, products, orders, now, oid, owner,
                                           "changed mind")
                     IN  IF o.status \notin Terminal
                         THEN c.err = OK /\ c.orders[oid].status = "cancelled"
                         ELSE c.err = "Order cannot be cancelled")
    /\ [][(umkms' # umkms /\ last'.op \in {"suspend_umkm", "close"}) =>
             /\ orders' = orders
             /\ products' = products
             /\ DOMAIN umkms' = DOMAIN umkms
             /\ \E m \in DOMAIN umkms :
                   /\ umkms' = [umkms EXCEPT ![m].status =
                                   IF last'.op = "close" THEN "closed" ELSE "suspended"]
                   /\ umkms[m].status # umkms'[m].status]_vars

(* The owner has completed an order of a merchant that is Closed: the last *)
(* write was the status update, and a Closed merchant stays Closed.        *)
C37_Witness ==
    /\ last.op = "update_order_status" /\ last.err = OK
    /\ orders[last.order_id].status = "completed"
    /\ umkms[orders[last.order_id].umkm_id].status = "closed"

(* The ids of the stored reviews of merchant m.                            *)
ReviewsOf(rs, m) == {r \in DOMAIN rs : rs[r].umkm_id = m}

(* C38: the rating_count of every merchant is the number of reviews stored *)
(* for it.  A create_review that succeeds stores one more review, for the  *)
(* merchant it names, and counts it there; one that fails (unknown         *)
(* merchant, unknown order, order of another buyer or of another merchant, *)
(* rating outside 1..5, comment too short or too long) hands back the      *)
(* merchants and the reviews as they were.                                 *)
C38_CountIsStoredReviews ==
    /\ \A m \in DOMAIN umkms : umkms[m].rating_count = Cardinality(ReviewsOf(reviews, m))
    /\ \A req \in ReviewRequests :
          LET r == create_review(umkms, orders, reviews, req)
          IN  IF r.err = OK
              THEN /\ Cardinality(DOMAIN r.reviews) = Cardinality(DOMAIN reviews) + 1
                   /\ \A id \in DOMAIN reviews : r.reviews[id] = reviews[id]
                   /\ \A m \in DOMAIN umkms :
                         /\ Cardinality(ReviewsOf(r.reviews, m))
                               = Cardinality(ReviewsOf(reviews, m))
                                    + (IF m = req.umkm_id THEN 1 ELSE 0)
                         /\ r.umkms[m].rating_count = Cardinality(ReviewsOf(r.reviews, m))
                         /\ m # req.umkm_id => r.umkms[m] = umkms[m]
              ELSE /\ r.umkms = umkms
                   /\ r.reviews = reviews
                   /\ r.err \in {"UMKM not found", "Order not found",
                                 "You can only review orders you made",
                                 "Order does not belong to this UMKM",
                                 "Rating must be between 1 and 5",
                                 "Review comment must be at least 5 characters",
                                 "Review comment cannot exceed 1000 characters"}

(* Two reviews are stored and counted for merchant m1, none for m2, and in *)
(* this state a review with too short a comment and one for an order of    *)
(* another merchant are refused.                                           *)
C38_Witness ==
    /\ last.op = "create_review" /\ last.err = OK
    /\ Cardinality(ReviewsOf(reviews, M1)) = 2
    /\ umkms[M1].rating_count = 2
    /\ umkms[M2].rating_count = 0
    /\ create_review(umkms, orders, reviews,
                     ReviewRequest(B1, M1, 5, MinCommentLength - 1, NoOrder)).err
          = "Review comment must be at least 5 characters"
    /\ create_review(umkms, orders, reviews,
                     ReviewRequest(B1, M2, 5, MinCommentLength, 1)).err
          = "Order does not belong to this UMKM"

(* C39: after any sequence of create_review and update_review calls the   *)
(* rating_average of every merchant is the mean of the ratings its stored  *)
(* reviews have now: rating_average * rating_count is the sum of those     *)
(* ratings, read up to the rounding of the float arithmetic (within        *)
(* n^2 / 2^49 of the sum, as in C23).                                      *)
C39_AverageIsMeanOfStored ==
    \A m \in DOMAIN umkms :
        /\ umkms[m].rating_count = Cardinality(ReviewsOf(reviews, m))
        /\ ProductNear(umkms[m].rating_average, umkms[m].rating_count, RatingSum(m))

(* The ids of the stored merchants of an owner.                            *)
MerchantsOf(us, owner_id) == {m \in DOMAIN us : us[m].owner_id = owner_id}

(* C40: after any sequence of register_umkm calls made one after the other *)
(* every owner has at most one stored merchant.  register_umkm fails with  *)
(* "Owner not found" for an owner that is no account, with "User must have *)
(* seller role to register UMKM" for an owner that is not an active        *)
(* seller, and with "Owner already has a UMKM registered" for an active    *)
(* seller that has a merchant, whatever its status; a failing call leaves  *)
(* the store as it was, and a successful one adds one merchant of the      *)
(* owner, in status pending and unrated, and changes no other.             *)
C40_OneMerchantPerOwner ==
    /\ \A o \in OwnerInputs : Cardinality(MerchantsOf(umkms, o)) <= 1
    /\ \A req \in RegisterRequests :
          LET r == register_umkm(umkms, req)
              o == req.owner_id
          IN  /\ o \notin DOMAIN accounts => r.err = "Owner not found"
              /\ (o \in DOMAIN accounts
                    /\ ~(accounts[o].role = "seller" /\ accounts[o].is_active))
                   => r.err = "User must have seller role to register UMKM"
              /\ (o \in DOMAIN accounts /\ accounts[o].role = "seller"
                    /\ accounts[o].is_active /\ MerchantsOf(umkms, o) # {})
                   => r.err = "Owner already has a UMKM registered"
              /\ r.err # OK => r.umkms = umkms
              /\ r.err = OK =>
                    /\ Cardinality(DOMAIN r.umkms) = Cardinality(DOMAIN umkms) + 1
                    /\ \A m \in DOMAIN umkms : r.umkms[m] = umkms[m]
                    /\ \A m \in DOMAIN r.umkms \ DOMAIN umkms :
                          /\ r.umkms[m].owner_id = o
                          /\ r.umkms[m].status = "pending"
                          /\ r.umkms[m].rating_count = 0
                    /\ \A x \in OwnerInputs : Cardinality(MerchantsOf(r.umkms, x)) <= 1

(* Seller s2 has just registered the second merchant, pending, next to the *)
(* closed one of seller s1; a further registration by s1 or s2, by the     *)
(* deactivated seller, by the buyer and by no account is refused, and one  *)
(* by seller s3 is accepted.                                               *)
C40_Witness ==
    /\ last.op = "register_umkm" /\ last.err = OK
    /\ DOMAIN umkms = {M1, M2}
    /\ umkms[M1].owner_id = S1 /\ umkms[M1].status = "closed"
    /\ umkms[M2].owner_id = S2 /\ umkms[M2].status = "pending"
    /\ \A o \in {S1, S2} :
          register_umkm(umkms, RegisterRequest(o, MinNameLength, MinDescriptionLength,
                                               TRUE, TRUE)).err
             = "Owner already has a UMKM registered"
    /\ \A o \in {S4, B1} :
          register_umkm(umkms, RegisterRequest(o, MinNameLength, MinDescriptionLength,
                                               TRUE, TRUE)).err
             = "User must have seller role to register UMKM"
    /\ register_umkm(umkms, RegisterRequest(U0, MinNameLength, MinDescriptionLength,
                                            TRUE, TRUE)).err = "Owner not found"
    /\ register_umkm(umkms, RegisterRequest(S3, MinNameLength, MinDescriptionLength,
                                            TRUE, TRUE)).err = OK

====
